---- MODULE Spec2Model ----
(***************************************************************************)
(* Model of the gardengenie backend: the /plant-care-instructions request  *)
(* pipeline (classification with bounded retry, category routing, care     *)
(* generation, persistence with an atomic path and a multi-step fallback,  *)
(* image enrichment) over a relational store.                              *)
(*                                                                         *)
(* Model responses are sequences of JSON tokens, so that the truncation    *)
(* heuristic, the JSON parse and the key checks are separate computations. *)
(* Python values are modelled as follows: a dict is a function from keys,  *)
(* None is the record NoneVal, a missing string field is the string Null.  *)
(***************************************************************************)
EXTENDS Integers, Sequences, FiniteSets, TLC

(***************************** bounds **************************************)
\* number of endpoint requests one behaviour serves
MaxRequests == 1
\* number of direct calls of the store one behaviour makes
MaxStoreCalls == 2
\* number of steps a phase of a validated care mapping holds at most
MaxSteps == 2
\* longest text, in tokens, handed to extract_json_from_response on its own
MaxTextLen == 5

(***************************** JSON tokens *********************************)
Tok(k, v) == [k |-> k, v |-> v]
LBrace == Tok("punct", "{")
RBrace == Tok("punct", "}")
Colon  == Tok("punct", ":")
Comma  == Tok("punct", ",")
WS     == Tok("ws", " ")
Str(s) == Tok("str", s)
Lit(s) == Tok("lit", s)
\* a complete nested JSON object, named; its text ends with a closing brace
Obj(n) == Tok("obj", n)

NoneVal == [py_none |-> TRUE]
Null == "<None>"
EmptyDict == [key \in {} |-> LBrace]

\* str.rstrip(): drop trailing whitespace
RECURSIVE RStrip(_)
RStrip(c) ==
    IF c = <<>> THEN c
    ELSE IF c[Len(c)].k = "ws" THEN RStrip(SubSeq(c, 1, Len(c) - 1))
    ELSE c

\* content.rstrip().endswith('}')
EndsWithBrace(c) ==
    LET r == RStrip(c)
    IN  r # <<>> /\ (r[Len(r)] = RBrace \/ r[Len(r)].k = "obj")

IsJsonValue(t) == t.k \in {"lit", "str", "obj"}

\* json.loads on an object text: '{' [ string ':' value { ',' string ':' value } ] '}'
JsonWellFormed(t) ==
    /\ Len(t) >= 2
    /\ t[1] = LBrace
    /\ t[Len(t)] = RBrace
    /\ LET n == Len(t) - 2
       IN  /\ (n = 0 \/ n % 4 = 3)
           /\ \A i \in 1..n :
                LET x == t[i + 1]
                IN  CASE i % 4 = 1 -> x.k = "str"
                      [] i % 4 = 2 -> x = Colon
                      [] i % 4 = 3 -> IsJsonValue(x)
                      [] OTHER     -> x = Comma

JsonLoads(c) ==
    LET t == SelectSeq(c, LAMBDA x : x.k # "ws")
        n == Len(t) - 2
        keyPos == {i \in 1..n : i % 4 = 1}
        keys == {t[i + 1].v : i \in keyPos}
        \* a repeated key keeps its last value
        last(key) == CHOOSE i \in keyPos :
                        /\ t[i + 1].v = key
                        /\ \A j \in keyPos : t[j + 1].v = key => j <= i
    IN  IF JsonWellFormed(t)
        THEN [ok |-> TRUE, d |-> [key \in keys |-> t[last(key) + 3]]]
        ELSE [ok |-> FALSE, d |-> EmptyDict]

\* Python truthiness of a parsed JSON value
Truthy(t) ==
    CASE t.k = "lit" -> t.v = "true"
      [] t.k = "str" -> t.v # ""
      [] OTHER       -> TRUE

IsNone(t) == t = Lit("null")

\* dict.get(key) with None for a missing key
Get(d, key) == IF key \in DOMAIN d THEN d[key] ELSE Lit("null")

(***************************** classification ******************************)
valid_plant_groups ==
    {"Vegetables", "Herbs", "Fruit Trees", "Flowering Shrubs", "Perennial Flowers",
     "Annual Flowers", "Ornamental Trees", "Houseplants", "Succulents", "Bulbs",
     "Native Plants"}

\* the table without its last entry
CATEGORY_TO_PROMPT_NoNative ==
    [g \in valid_plant_groups \ {"Native Plants"} |->
        CASE g \in {"Vegetables", "Herbs"} -> "edible_annuals"
          [] g = "Fruit Trees" -> "fruit_trees"
          [] g \in {"Flowering Shrubs", "Perennial Flowers", "Ornamental Trees"}
                -> "ornamental_perennials"
          [] g = "Annual Flowers" -> "annual_flowers"
          [] g = "Houseplants" -> "houseplants"
          [] g = "Succulents" -> "succulents"
          [] OTHER -> "bulbs"]

CATEGORY_TO_PROMPT ==
    [g \in valid_plant_groups |->
        CASE g \in {"Vegetables", "Herbs"} -> "edible_annuals"
          [] g = "Fruit Trees" -> "fruit_trees"
          [] g \in {"Flowering Shrubs", "Perennial Flowers", "Ornamental Trees",
                    "Native Plants"} -> "ornamental_perennials"
          [] g = "Annual Flowers" -> "annual_flowers"
          [] g = "Houseplants" -> "houseplants"
          [] g = "Succulents" -> "succulents"
          [] OTHER -> "bulbs"]

\* a loop of one attempt too many
ClassifyAttemptsOffByOne == 3 + 1
\* number of iterations of the retry loop: range(1, 4)
ClassifyAttempts == 3
\* config.llm_max_retries, the stop_after_attempt bound of make_llm_request
LLM_MAX_RETRIES == 3

\* One iteration of the loop of classify_plant_group on the value returned by
\* make_llm_request: either `continue` (retry) or a returned dict.
Retry == [retry |-> TRUE, value |-> NoneVal]
Return(v) == [retry |-> FALSE, value |-> v]

\* the group of a plant is not checked against valid_plant_groups
ValidateClassificationAnyGroup(classification) ==
    IF "is_plant" \notin DOMAIN classification \/ "plant_group" \notin DOMAIN classification
    THEN Retry
    ELSE LET is_plant == Truthy(classification["is_plant"])
             plant_group == classification["plant_group"]
         IN  IF ~is_plant
             THEN IF ~IsNone(plant_group) THEN Retry
                  ELSE Return([is_plant |-> FALSE])
             ELSE Return([is_plant |-> TRUE, plant_group |-> plant_group.v])

\* the shape validation of the parsed classification
ValidateClassification(classification) ==
    IF "is_plant" \notin DOMAIN classification \/ "plant_group" \notin DOMAIN classification
    THEN Retry
    ELSE LET is_plant == Truthy(classification["is_plant"])
             plant_group == classification["plant_group"]
         IN  IF ~is_plant
             THEN IF ~IsNone(plant_group) THEN Retry
                  ELSE Return([is_plant |-> FALSE])
             ELSE IF ~(plant_group.k = "str" /\ plant_group.v \in valid_plant_groups)
                  THEN Retry
                  ELSE Return([is_plant |-> TRUE, plant_group |-> plant_group.v])

\* an empty result ends the classification instead of being retried
ClassifyAttemptEmptyFatal(result) ==
    IF result = NoneVal THEN Return(NoneVal)
    ELSE IF ~EndsWithBrace(result.content) THEN Retry
    ELSE LET p == JsonLoads(result.content)
         IN  IF ~p.ok THEN Retry ELSE ValidateClassification(p.d)

ClassifyAttempt(result) ==
    IF result = NoneVal THEN Retry
    ELSE IF ~EndsWithBrace(result.content) THEN Retry
    ELSE LET p == JsonLoads(result.content)
         IN  IF ~p.ok THEN Retry ELSE ValidateClassification(p.d)

\* get_plant_group_and_prompt on the value returned by classify_plant_group
GetPlantGroupAndPrompt(c) ==
    IF c = NoneVal THEN NoneVal
    ELSE IF ~(IF "is_plant" \in DOMAIN c THEN c.is_plant ELSE TRUE)
         THEN [is_plant |-> FALSE]
    ELSE IF c.plant_group \notin DOMAIN CATEGORY_TO_PROMPT THEN NoneVal
    ELSE [is_plant |-> TRUE, plant_group |-> c.plant_group,
          prompt_function |-> CATEGORY_TO_PROMPT[c.plant_group]]


(***************************** care documents ******************************)
\* str.strip() over the string literals the documents use
Strip(s) ==
    CASE s = " Pinch tips " -> "Pinch tips"
      [] s = "   " -> ""
      [] OTHER -> s

\* a JSON number (5) where the code expects a string or None
NotStr == "<5>"

\* None-or-string field: `x or ''`
OrEmpty(s) == IF s = Null THEN "" ELSE s
\* `not x` for a None-or-string field
Falsy(s) == s = Null \/ s = ""

Item(text, when, priority) ==
    [dict |-> TRUE, text |-> text, when |-> when, priority |-> priority]
Tab(key, label, items) ==
    [dict |-> TRUE, key |-> key, label |-> label, items |-> [list |-> TRUE, v |-> items]]
Step(step, months, priority, timing) ==
    [dict |-> TRUE, step |-> step, months |-> months, priority |-> priority,
     timing |-> timing]
Phase(name, steps) == [phase |-> name, steps |-> [list |-> TRUE, v |-> steps]]

\* the nested objects a generated document can carry, by name
CarePlans ==
    [n \in {"planA", "planB", "planBlank", "planNoTabs", "planNumLabel"} |->
        CASE n = "planA" ->
               [style |-> "lifecycle",
                tabs |-> [list |-> TRUE, v |->
                   << Tab("grow", "Grow", << Item("Water weekly", "Spring", "must do"),
                                             Item("   ", Null, Null),
                                             Item(" Pinch tips ", Null, Null) >>) >>]]
          [] n = "planNumLabel" ->
               [style |-> "indoor",
                tabs |-> [list |-> TRUE, v |->
                   << Tab("care", NotStr, << Item("Water weekly", Null, Null) >>) >>]]
          [] n = "planB" ->
               [style |-> "seasons",
                tabs |-> [list |-> TRUE, v |->
                   << Tab("harvest", Null, << Item("Cut stems", "Summer", "optional") >>),
                      Tab(Null, "   ", << Item("Mulch", Null, "good to do") >>) >>]]
          [] n = "planBlank" ->
               [style |-> "indoor",
                tabs |-> [list |-> TRUE, v |->
                   << Tab("care", "Care", << Item("   ", Null, Null) >>) >>]]
          [] OTHER ->
               [style |-> "indoor", tabs |-> [list |-> TRUE, v |-> << >>]]]

LegacyCares ==
    [n \in {"careL", "careBad", "careNoSteps"} |->
        CASE n = "careL" ->
               << Phase("spring", << Step("Sow seeds", "March", "must do", Null),
                                     Step("Thin seedlings", Null, "urgent", Null) >>),
                  Phase("winter", << >>) >>
          [] n = "careBad" ->
               << Phase("spring", << Step("", "March", Null, Null) >>) >>
          [] OTHER ->
               << Phase("spring", << >>) >>]

\* objects that are empty dicts ({}), hence falsy
EmptyObjects == {"emptyObj"}

ObjTruthy(t) ==
    CASE t.k = "obj" -> t.v \notin EmptyObjects
      [] OTHER -> Truthy(t)
IsDict(t) == t.k = "obj"

\* care_plan_json.get('tabs') or []
PlanTabs(t) ==
    IF t.v \in DOMAIN CarePlans THEN CarePlans[t.v].tabs ELSE [list |-> TRUE, v |-> << >>]
\* care_details.items() of a dict value
CareItems(t) == IF t.v \in DOMAIN LegacyCares THEN LegacyCares[t.v] ELSE << >>

RECURSIVE Flatten(_)
Flatten(ss) == IF ss = << >> THEN << >> ELSE Head(ss) \o Flatten(Tail(ss))

Indices(s) == [i \in 1..Len(s) |-> i]

(***************************** validate_care_structure *********************)
valid_priorities == {"must do", "good to do", "optional"}

\* `not x or not isinstance(x, str) or not x.strip()` for a description x
NoDescription(x) == Falsy(x) \/ x = NotStr \/ Strip(x) = ""

\* a priority outside valid_priorities is an error
StepErrorsStrictPriority(st) ==
    IF ~st.dict THEN << "step_not_dict" >>
    ELSE (IF NoDescription(st.step) THEN << "step_missing" >> ELSE << >>)
         \o (IF ~Falsy(st.priority) /\ st.priority \notin valid_priorities
             THEN << "priority_invalid" >> ELSE << >>)

StepErrors(st) ==
    IF ~st.dict THEN << "step_not_dict" >>
    ELSE IF NoDescription(st.step) THEN << "step_missing" >>
    ELSE << >>

\* validation_result['valid'] is left alone by the step
StepValid(st) == st.dict /\ ~NoDescription(st.step)

StepWarnings(st) ==
    IF ~st.dict THEN << >>
    ELSE (IF ~Falsy(st.priority) /\ st.priority \notin valid_priorities
          THEN << "priority_invalid" >> ELSE << >>)
         \o (IF Falsy(st.months) /\ Falsy(st.timing)
             THEN << "timing_missing" >> ELSE << >>)

\* the loop over the steps stops at the first step with an error
PhaseErrorsFirstOnly(ph) ==
    IF ~ph.steps.list THEN << "phase_not_list" >>
    ELSE LET all == Flatten([i \in 1..Len(ph.steps.v) |-> StepErrors(ph.steps.v[i])])
         IN  SubSeq(all, 1, IF all = << >> THEN 0 ELSE 1)

PhaseErrors(ph) ==
    IF ~ph.steps.list THEN << "phase_not_list" >>
    ELSE Flatten([i \in 1..Len(ph.steps.v) |-> StepErrors(ph.steps.v[i])])

\* a phase that is not a list leaves validation_result['valid'] alone
PhaseValidAnyType(ph) ==
    ph.steps.list => \A i \in 1..Len(ph.steps.v) : StepValid(ph.steps.v[i])

\* validation_result['valid'] is left alone by the phase
PhaseValid(ph) ==
    /\ ph.steps.list
    /\ \A i \in 1..Len(ph.steps.v) : StepValid(ph.steps.v[i])

PhaseWarnings(ph) ==
    IF ~ph.steps.list THEN << >>
    ELSE IF ph.steps.v = << >> THEN << "phase_empty" >>
    ELSE Flatten([i \in 1..Len(ph.steps.v) |-> StepWarnings(ph.steps.v[i])])

\* steps counted by total_instructions: every dict step of a list phase
PhaseCount(ph) ==
    IF ~ph.steps.list THEN 0
    ELSE Len(SelectSeq(ph.steps.v, LAMBDA st : st.dict))

RECURSIVE SumSeq(_)
SumSeq(s) == IF s = << >> THEN 0 ELSE Head(s) + SumSeq(Tail(s))

\* a mapping without a step is accepted
validate_phases_NoTotalCheck(phases) ==
    LET errs == Flatten([i \in 1..Len(phases) |-> PhaseErrors(phases[i])])
        warns == Flatten([i \in 1..Len(phases) |-> PhaseWarnings(phases[i])])
    IN  [valid |-> \A i \in 1..Len(phases) : PhaseValid(phases[i]),
         errors |-> errs, warnings |-> warns]

\* the loop over the phases of a non-empty dict and the final check; phases
\* is care_details.items()
validate_phases(phases) ==
    LET errs == Flatten([i \in 1..Len(phases) |-> PhaseErrors(phases[i])])
        warns == Flatten([i \in 1..Len(phases) |-> PhaseWarnings(phases[i])])
        total == SumSeq([i \in 1..Len(phases) |-> PhaseCount(phases[i])])
        final == IF total = 0 THEN << "no_instructions" >> ELSE << >>
    IN  [valid |-> (\A i \in 1..Len(phases) : PhaseValid(phases[i])) /\ total # 0,
         errors |-> errs \o final,
         warnings |-> warns]

\* validate_care_structure on a dict given by its items
validate_care_dict(phases) ==
    IF phases = << >>
    THEN [valid |-> TRUE, errors |-> << >>, warnings |-> << "empty" >>]
    ELSE validate_phases(phases)

\* care_details is the token of care_info['care'], or Obj("emptyObj") when the
\* key is missing (care_info.get('care', {}))
validate_care_structure(care_details) ==
    IF ~IsDict(care_details)
    THEN [valid |-> FALSE, errors |-> << "not_dict" >>, warnings |-> << >>]
    ELSE IF ~ObjTruthy(care_details)
    THEN validate_care_dict(<< >>)
    ELSE validate_phases(CareItems(care_details))

(***************************** flattening **********************************)
\* (tab_label or '').strip() and (tab_key or '').strip() raise AttributeError on
\* a truthy value that is not a string
map_phase_from_tab_raises(tab_key, tab_label) ==
    \/ tab_label = NotStr
    \/ Strip(OrEmpty(tab_label)) = "" /\ tab_key = NotStr

map_phase_from_tab(tab_key, tab_label) ==
    LET label_original == Strip(OrEmpty(tab_label))
        key_original == Strip(OrEmpty(tab_key))
    IN  IF label_original # "" THEN label_original
        ELSE IF key_original # "" THEN key_original
        ELSE "General"

ItemOk(item) == item.dict /\ ~NoDescription(item.text)
StepOk(st) == st.dict /\ ~NoDescription(st.step)

Row(phase, months, text, priority, i) ==
    [care_phase |-> phase, months |-> months, step_description |-> Strip(text),
     priority |-> priority, order_within_season |-> i]

TabRows(tab) ==
    IF ~tab.dict \/ ~tab.items.list THEN << >>
    ELSE LET items == tab.items.v
             keep == SelectSeq(Indices(items), LAMBDA i : ItemOk(items[i]))
         IN  [j \in 1..Len(keep) |->
                Row(map_phase_from_tab(tab.key, tab.label), items[keep[j]].when,
                    items[keep[j]].text, items[keep[j]].priority, keep[j])]

PhaseRows(ph) ==
    IF ~ph.steps.list THEN << >>
    ELSE LET steps == ph.steps.v
             keep == SelectSeq(Indices(steps), LAMBDA i : StepOk(steps[i]))
         IN  [j \in 1..Len(keep) |->
                Row(ph.phase, steps[keep[j]].months, steps[keep[j]].step,
                    steps[keep[j]].priority, keep[j])]

CarePlanJson(care_info) == Get(care_info, "care_plan")
CareDetails(care_info) ==
    IF "care" \in DOMAIN care_info THEN care_info["care"] ELSE Obj("emptyObj")

UsesCarePlan(care_info) ==
    ObjTruthy(CarePlanJson(care_info)) /\ IsDict(CarePlanJson(care_info))

\* care_details.items() raises when care_details is not a dict
LegacyRaises(care_info) ==
    ~UsesCarePlan(care_info) /\ ~IsDict(CareDetails(care_info))

\* map_phase_from_tab raises for a tab of the care_plan
TabRaises(care_info) ==
    /\ UsesCarePlan(care_info)
    /\ LET tabs == PlanTabs(CarePlanJson(care_info))
       IN  /\ tabs.list
           /\ \E i \in 1..Len(tabs.v) :
                /\ tabs.v[i].dict
                /\ map_phase_from_tab_raises(tabs.v[i].key, tabs.v[i].label)

build_care_rows_without_plant_id(care_info) ==
    IF UsesCarePlan(care_info)
    THEN LET tabs == PlanTabs(CarePlanJson(care_info))
         IN  IF ~tabs.list THEN << >>
             ELSE Flatten([i \in 1..Len(tabs.v) |-> TabRows(tabs.v[i])])
    ELSE LET phases == CareItems(CareDetails(care_info))
         IN  Flatten([i \in 1..Len(phases) |-> PhaseRows(phases[i])])

\* the fallback path's own flattening: the rows carry plant_id, and the
\* entries left out are counted
\* the rows carry no plant identifier
RowWithIdUnset(plant_uuid, phase, months, text, priority, i) ==
    [plant_id |-> 0, care_phase |-> phase, months |-> months,
     step_description |-> Strip(text), priority |-> priority,
     order_within_season |-> i]

RowWithId(plant_uuid, phase, months, text, priority, i) ==
    [plant_id |-> plant_uuid, care_phase |-> phase, months |-> months,
     step_description |-> Strip(text), priority |-> priority,
     order_within_season |-> i]

\* the rows of a tab are numbered by their position among the rows kept
TabRowsWithIdRenumbered(tab, plant_uuid) ==
    IF ~tab.dict \/ ~tab.items.list THEN << >>
    ELSE LET items == tab.items.v
             keep == SelectSeq(Indices(items), LAMBDA i : ItemOk(items[i]))
         IN  [j \in 1..Len(keep) |->
                RowWithId(plant_uuid, map_phase_from_tab(tab.key, tab.label),
                          items[keep[j]].when, items[keep[j]].text,
                          items[keep[j]].priority, j)]

TabRowsWithId(tab, plant_uuid) ==
    IF ~tab.dict \/ ~tab.items.list THEN << >>
    ELSE LET items == tab.items.v
             keep == SelectSeq(Indices(items), LAMBDA i : ItemOk(items[i]))
         IN  [j \in 1..Len(keep) |->
                RowWithId(plant_uuid, map_phase_from_tab(tab.key, tab.label),
                          items[keep[j]].when, items[keep[j]].text,
                          items[keep[j]].priority, keep[j])]

PhaseRowsWithId(ph, plant_uuid) ==
    IF ~ph.steps.list THEN << >>
    ELSE LET steps == ph.steps.v
             keep == SelectSeq(Indices(steps), LAMBDA i : StepOk(steps[i]))
         IN  [j \in 1..Len(keep) |->
                RowWithId(plant_uuid, ph.phase, steps[keep[j]].months,
                          steps[keep[j]].step, steps[keep[j]].priority, keep[j])]

TabSkipped(tab) ==
    IF ~tab.dict \/ ~tab.items.list THEN 1
    ELSE Len(SelectSeq(tab.items.v, LAMBDA it : ~ItemOk(it)))

PhaseSkipped(ph) ==
    IF ~ph.steps.list THEN 1
    ELSE Len(SelectSeq(ph.steps.v, LAMBDA st : ~StepOk(st)))

WithPlantId(rows, plant_uuid) ==
    [j \in 1..Len(rows) |->
        [plant_id |-> plant_uuid, care_phase |-> rows[j].care_phase,
         months |-> rows[j].months, step_description |-> rows[j].step_description,
         priority |-> rows[j].priority,
         order_within_season |-> rows[j].order_within_season]]

care_instructions_to_insert(care_info, plant_uuid) ==
    IF UsesCarePlan(care_info)
    THEN LET tabs == PlanTabs(CarePlanJson(care_info))
         IN  IF ~tabs.list THEN << >>
             ELSE Flatten([i \in 1..Len(tabs.v) |->
                              TabRowsWithId(tabs.v[i], plant_uuid)])
    ELSE LET phases == CareItems(CareDetails(care_info))
         IN  Flatten([i \in 1..Len(phases) |-> PhaseRowsWithId(phases[i], plant_uuid)])

skipped_instructions(care_info) ==
    IF UsesCarePlan(care_info)
    THEN LET tabs == PlanTabs(CarePlanJson(care_info))
         IN  IF ~tabs.list THEN 0
             ELSE SumSeq([i \in 1..Len(tabs.v) |-> TabSkipped(tabs.v[i])])
    ELSE LET phases == CareItems(CareDetails(care_info))
         IN  SumSeq([i \in 1..Len(phases) |-> PhaseSkipped(phases[i])])

(***************************** care generation *****************************)
required_keys == {"plantName", "care_plan", "requirements"}

\* the required keys are not checked
validate_and_parse_response_NoKeyCheck(result) ==
    IF result = NoneVal THEN NoneVal
    ELSE IF ~EndsWithBrace(result.content) THEN NoneVal
    ELSE LET p == JsonLoads(result.content)
         IN  IF ~p.ok THEN NoneVal
             ELSE [key \in DOMAIN p.d \cup {"__raw_llm_response", "__raw_llm_text"} |->
                     CASE key = "__raw_llm_response" -> Obj("raw_response")
                       [] key = "__raw_llm_text" -> Str("raw_text")
                       [] OTHER -> p.d[key]]

\* validate_and_parse_response on the value returned by make_llm_request
validate_and_parse_response(result) ==
    IF result = NoneVal THEN NoneVal
    ELSE IF ~EndsWithBrace(result.content) THEN NoneVal
    ELSE LET p == JsonLoads(result.content)
         IN  IF ~p.ok THEN NoneVal
             ELSE IF ~(required_keys \subseteq DOMAIN p.d) THEN NoneVal
             ELSE [key \in DOMAIN p.d \cup {"__raw_llm_response", "__raw_llm_text"} |->
                     CASE key = "__raw_llm_response" -> Obj("raw_response")
                       [] key = "__raw_llm_text" -> Str("raw_text")
                       [] OTHER -> p.d[key]]


(***************************** model responses *****************************)
ClsJson(is_plant, plant_group) ==
    << LBrace, Str("is_plant"), Colon, is_plant, Comma,
       Str("plant_group"), Colon, plant_group, RBrace >>

\* raw texts the classifier model can answer with
PlantContent(g) == ClsJson(Lit("true"), Str(g))
ValidPlantContents == {PlantContent(g) : g \in valid_plant_groups}
NonPlantContent == ClsJson(Lit("false"), Lit("null")) \o << WS >>
EmptyContent == << WS >>
TruncatedContent ==
    << LBrace, Str("is_plant"), Colon, Lit("true"), Comma, Str("plant_group"), Colon,
       Str("Herbs") >>
UnparseableContent == << LBrace, Str("is_plant"), Colon, RBrace >>
MissingKeyContent == << LBrace, Str("is_plant"), Colon, Lit("true"), RBrace >>
NonPlantWithGroupContent == ClsJson(Lit("false"), Str("Herbs"))
BadGroupContent == ClsJson(Lit("true"), Str("Cactus"))

MalformedContents ==
    {EmptyContent, TruncatedContent, UnparseableContent, MissingKeyContent,
     NonPlantWithGroupContent, BadGroupContent}
ClassifyContents == ValidPlantContents \cup {NonPlantContent} \cup MalformedContents

DocJson(name, plan) ==
    << LBrace, Str("plantName"), Colon, name, Comma, Str("care_plan"), Colon, plan,
       Comma, Str("requirements"), Colon, Obj("reqs"), RBrace >>
WithCare(doc, care) ==
    SubSeq(doc, 1, Len(doc) - 1) \o << Comma, Str("care"), Colon, care, RBrace >>

DocA == DocJson(Str("Basil"), Obj("planA"))
DocB == DocJson(Str("Basil"), Obj("planB"))
DocBlank == DocJson(Str("Basil"), Obj("planBlank"))
DocNoTabs == DocJson(Str("Basil"), Obj("planNoTabs"))
DocLegacy == WithCare(DocJson(Str("Basil"), Lit("null")), Obj("careL"))
DocLegacyBad == WithCare(DocJson(Str("Basil"), Lit("null")), Obj("careBad"))
DocLegacyNoSteps == WithCare(DocJson(Str("Basil"), Lit("null")), Obj("careNoSteps"))
DocNoName == DocJson(Str(""), Obj("planA"))
\* care_plan and care are texts, not mappings
DocPlanText == WithCare(DocJson(Str("Basil"), Str("see care")), Str("water weekly"))
\* a tab whose label is a number
DocNumLabel == DocJson(Str("Basil"), Obj("planNumLabel"))
\* cut before the closing brace, after a string and after a nested object
DocTruncated == SubSeq(DocA, 1, 4)
DocTruncatedAfterObject == SubSeq(DocA, 1, Len(DocA) - 1)
DocMissingKey ==
    << LBrace, Str("plantName"), Colon, Str("Basil"), Comma, Str("care_plan"), Colon,
       Obj("planA"), RBrace >>

\* a legacy document: plantName and care, no care_plan and no requirements
DocLegacyOnly ==
    << LBrace, Str("plantName"), Colon, Str("Basil"), Comma, Str("care"), Colon,
       Obj("careL"), RBrace >>
DocNoPlantNameKey ==
    << LBrace, Str("care_plan"), Colon, Obj("planA"), Comma, Str("requirements"), Colon,
       Obj("reqs"), RBrace >>
DocNameOnly == << LBrace, Str("plantName"), Colon, Str("Basil"), RBrace >>

GoodDocs ==
    {DocA, DocB, DocBlank, DocNoTabs, DocLegacy, DocLegacyBad, DocLegacyNoSteps,
     DocNoName}
\* documents whose care_plan, care or tab label has an unexpected type
ShapeDocs == {DocPlanText, DocNumLabel}
BadDocs ==
    {DocTruncated, DocTruncatedAfterObject, DocMissingKey, DocLegacyOnly,
     DocNoPlantNameKey, DocNameOnly, EmptyContent}
CareContents == GoodDocs \cup BadDocs

\* str.strip() on a text
RECURSIVE LStrip(_)
LStrip(c) ==
    IF c = <<>> THEN c
    ELSE IF Head(c).k = "ws" THEN LStrip(Tail(c))
    ELSE c
StripText(c) == LStrip(RStrip(c))

\* a markdown fence (three backquotes) and the language tag the pattern
\* accepts after it, whatever its case
Fence == Tok("fence", "'''")
JsonTags == {Tok("word", "json"), Tok("word", "JSON")}

\* re.search finds the leftmost opening fence that a later fence closes; the
\* lazy group ends before the first fence after it
FencePositions(content) == {i \in 1..Len(content) : content[i] = Fence}
FirstOf(S) == CHOOSE i \in S : \A j \in S : i <= j

\* the inner content of the block is returned as it stands
extract_json_from_response_Untrimmed(content) ==
    LET fs == FencePositions(content)
    IN  IF Cardinality(fs) >= 2
        THEN LET open == FirstOf(fs)
                 close == FirstOf(fs \ {open})
                 start == IF content[open + 1] \in JsonTags THEN open + 2 ELSE open + 1
             IN  SubSeq(content, start, close - 1)
        ELSE StripText(content)

extract_json_from_response(content) ==
    LET fs == FencePositions(content)
    IN  IF Cardinality(fs) >= 2
        THEN LET open == FirstOf(fs)
                 close == FirstOf(fs \ {open})
                 start == IF content[open + 1] \in JsonTags THEN open + 2 ELSE open + 1
             IN  StripText(SubSeq(content, start, close - 1))
        ELSE StripText(content)

\* make_llm_request on a completion whose message text is raw: the cleaned
\* content, or None when it is empty
make_llm_request(raw) ==
    LET raw_content == StripText(raw)
        clean_content == extract_json_from_response(raw_content)
    IN  IF clean_content = <<>> THEN NoneVal ELSE [content |-> clean_content]

Zones == {"7a", "8b"}
IndoorGroups == {"Houseplants", "Succulents"}


(***************************** state ****************************************)
\* the worker processes
Procs == {"w1", "w2"}

VARIABLES
    supabase,           \* TRUE iff the store client could be initialised
    apiKey,             \* TRUE iff OPENROUTER_API_KEY is set
    llm,                \* the texts the model provider answers with
    plants,             \* table plants: set of rows
    care_instructions,  \* table care_instructions: bag of rows (row -> count)
    plant_images,       \* table plant_images: set of rows
    ncalls,             \* requests (or direct calls) made so far
    req                 \* per worker: the call it is serving

vars == <<supabase, apiKey, llm, plants, care_instructions, plant_images, ncalls, req>>

NoRows == [row \in {} |-> 0]

BagOfSeq(rows) ==
    [row \in {rows[i] : i \in DOMAIN rows} |->
        Cardinality({i \in DOMAIN rows : rows[i] = row})]
BagPlus(a, b) ==
    [row \in DOMAIN a \cup DOMAIN b |->
        (IF row \in DOMAIN a THEN a[row] ELSE 0) + (IF row \in DOMAIN b THEN b[row] ELSE 0)]
\* delete().eq('plant_id', id)
DeleteWhere(b, id) == [row \in {x \in DOMAIN b : x.plant_id # id} |-> b[row]]
\* the rows of one plant
RowsOf(b, id) == [row \in {x \in DOMAIN b : x.plant_id = id} |-> b[row]]

MinOf(S) == CHOOSE x \in S : \A y \in S : x <= y
MaxOf(S) == CHOOSE x \in S : \A y \in S : y <= x
NextId(rows) == IF rows = {} THEN 1 ELSE MaxOf({x.plant_id : x \in rows}) + 1
NextImageId(rows) == IF rows = {} THEN 1 ELSE MaxOf({x.id : x \in rows}) + 1

\* the previous call of the store by the same worker, when it returned true
NoPrev == [ok |-> FALSE, raw |-> << >>, zone |-> "", group |-> "", id |-> 0]

\* caller: the function the worker was entered at ("endpoint", "classify" or
\* "store"); raised: an exception left that function.  Bookkeeping for the
\* properties: ops (the kinds of outbound calls issued), classLog (the texts the
\* classifier answered with), llm_failed (the provider call raised on every
\* transport attempt), rpc_id (the plant_id of the rpc response, 0 when it has
\* none), care_before and plants_before (the instruction rows and the plant
\* rows when the store was entered), stored_id (the plant row the store wrote
\* to, 0 when none), care_responses (the care-generation responses consumed),
\* prev, outcome (how each fallback call issued by this store call ended,
\* kept when noting is set), llm_calls (the number of provider calls issued,
\* kept when noting is set),
\* content and extracted (the text handed to extract_json_from_response and
\* what it returned, call after call),
\* persist (the request's persist field), care_details, care_nondict,
\* validation, validation_before and edit (the mapping handed to
\* validate_care_structure, or the value handed to it when that is not a
\* mapping, its result, the result before the mapping was edited, and the edit)
NoOutcome == [op \in {} |-> ""]

Idle ==
    [pc |-> "idle", caller |-> "none", user_zone |-> "", attempt |-> 0, tries |-> 0,
     classLog |-> << >>, clsState |-> "none", classification |-> NoneVal,
     care_raw |-> << >>,
     plant_group |-> "", prompt_function |-> "", care_info |-> NoneVal,
     plant_uuid |-> 0, storage_success |-> "unset", ops |-> {}, raised |-> FALSE,
     http |-> 0, body |-> "none", llm_failed |-> FALSE, rpc_id |-> 0,
     care_before |-> NoRows, plants_before |-> {}, stored_id |-> 0,
     care_responses |-> 0, prev |-> NoPrev, persist |-> TRUE, outcome |-> NoOutcome,
     noting |-> FALSE, llm_calls |-> 0, content |-> << >>, extracted |-> << >>,
     care_details |-> << >>, care_nondict |-> NoneVal,
     validation |-> NoneVal, validation_before |-> NoneVal,
     edit |-> "none"]

Off == [Idle EXCEPT !.pc = "off"]

InitData(cls, care) ==
    /\ llm = [cls |-> cls, care |-> care]
    /\ plants = {}
    /\ care_instructions = NoRows
    /\ plant_images = {}
    /\ ncalls = 0
    /\ req = [p \in Procs |-> IF p = "w1" THEN Idle ELSE Off]

\* the endpoint: the classifier model knows one category and truncates
RepresentativeGroups == {"Herbs", "Houseplants"}
Init ==
    /\ supabase \in BOOLEAN
    /\ apiKey \in BOOLEAN
    /\ \E g \in RepresentativeGroups :
         InitData({PlantContent(g), NonPlantContent, TruncatedContent}, CareContents)

LlmOps == {"llm_classify", "llm_care"}
Issue(r, op) ==
    [r EXCEPT !.ops = @ \cup {op},
              !.llm_calls = IF r.noting /\ op \in LlmOps THEN @ + 1 ELSE @]
Noted(r, op, kind) ==
    IF r.noting
    THEN [r EXCEPT !.outcome = [o \in DOMAIN r.outcome \cup {op} |->
                                   IF o = op THEN kind ELSE r.outcome[o]]]
    ELSE r
\* the calls of the plant-identity stage are noted as "ok" or "failed"
OkOrFailed(kind) == IF kind = "ok" THEN "ok" ELSE "failed"
\* the endpoint answers: a returned body or an HTTPException
Respond(r, status, what) == [r EXCEPT !.pc = "done", !.http = status, !.body = what]
\* an exception leaves the entered function; no handler of the endpoint
\* catches it, so the framework answers 500
Raise(r) ==
    [r EXCEPT !.pc = "done", !.raised = TRUE,
              !.http = IF r.caller = "endpoint" THEN 500 ELSE 0,
              !.body = IF r.caller = "endpoint" THEN "exception" ELSE "none"]
\* a value is returned to the caller outside the model
Done(r) == [r EXCEPT !.pc = "done"]

(***************************** endpoint *************************************)
\* get_plant_care_instructions up to the first model call, for a payload whose
\* user_zone is in zones and whose persist is in persists
ReceiveFrom(p, zones, persists) ==
    /\ req[p].pc \in {"idle", "done"}
    /\ ncalls < MaxRequests
    /\ ncalls' = ncalls + 1
    /\ \E z \in zones, persist \in persists :
         LET r == [Idle EXCEPT !.user_zone = z, !.caller = "endpoint",
                               !.persist = persist]
         IN  req' = [req EXCEPT ![p] =
                 IF ~supabase
                 THEN Respond(r, 503, "detail")
                 ELSE [r EXCEPT !.pc = "classify", !.attempt = 1, !.tries = 1,
                                !.clsState = "running"]]
    /\ UNCHANGED <<supabase, apiKey, llm, plants, care_instructions, plant_images>>

\* a request that leaves persist at its default
Receive(p) == ReceiveFrom(p, Zones, {TRUE})

\* a provider call that raised on every transport attempt uses up one
\* classification attempt
LlmRaiseConsumingAttempt(p) ==
    /\ req[p].pc \in {"classify", "generate"}
    /\ apiKey
    /\ LET r == Issue(req[p], IF req[p].pc = "classify" THEN "llm_classify" ELSE "llm_care")
       IN  req' = [req EXCEPT ![p] =
               IF r.tries < LLM_MAX_RETRIES
               THEN [r EXCEPT !.tries = @ + 1]
               ELSE IF r.pc = "classify" /\ r.attempt < ClassifyAttempts
               THEN [r EXCEPT !.attempt = @ + 1, !.tries = 1]
               ELSE Raise([r EXCEPT !.llm_failed = TRUE,
                                    !.clsState =
                                        IF r.pc = "classify" THEN "raised" ELSE @])]
    /\ UNCHANGED <<supabase, apiKey, llm, plants, care_instructions, plant_images, ncalls>>

\* make_llm_request: the provider call raises; the retry decorator calls again
\* until LLM_MAX_RETRIES calls were made, then re-raises to the caller
LlmRaise(p) ==
    /\ req[p].pc \in {"classify", "generate"}
    /\ apiKey
    /\ LET r == Issue(req[p], IF req[p].pc = "classify" THEN "llm_classify" ELSE "llm_care")
       IN  req' = [req EXCEPT ![p] =
               IF r.tries < LLM_MAX_RETRIES
               THEN [r EXCEPT !.tries = @ + 1]
               ELSE Raise([r EXCEPT !.llm_failed = TRUE,
                                    !.clsState =
                                        IF r.pc = "classify" THEN "raised" ELSE @])]
    /\ UNCHANGED <<supabase, apiKey, llm, plants, care_instructions, plant_images, ncalls>>

\* the chain of branches without its bulbs branch
GeneratorBranchesNoBulbs ==
    {"houseplants", "edible_annuals", "fruit_trees", "ornamental_perennials",
     "annual_flowers", "succulents"}

\* the prompt functions generate_plant_care_instructions has a branch for
GeneratorBranches ==
    {"houseplants", "edible_annuals", "fruit_trees", "ornamental_perennials",
     "annual_flowers", "bulbs", "succulents"}

\* generate_plant_care_instructions from the return of get_plant_group_and_prompt
\* to the care-generation call
AfterRouting(r, classification_result) ==
    IF classification_result = NoneVal
    THEN Respond(r, 503, "detail")
    ELSE IF "plant_group" \notin DOMAIN classification_result
    THEN \* classification_result["plant_group"] raises KeyError
         Raise(r)
    ELSE IF classification_result.prompt_function \notin GeneratorBranches
    THEN Respond(r, 503, "detail")
    ELSE [r EXCEPT !.pc = "generate", !.tries = 1,
                   !.plant_group = classification_result.plant_group,
                   !.prompt_function = classification_result.prompt_function]

\* classify_plant_group returns v to get_plant_group_and_prompt
AfterClassify(r0, v) ==
    LET r == [r0 EXCEPT !.clsState = "returned", !.classification = v]
        routed == GetPlantGroupAndPrompt(v)
    IN  IF r.caller = "endpoint" THEN AfterRouting(r, routed)
        ELSE Done([r EXCEPT !.prompt_function =
                      IF routed # NoneVal /\ "prompt_function" \in DOMAIN routed
                      THEN routed.prompt_function ELSE ""])

\* one iteration of the loop of classify_plant_group whose provider call answers
ClassifyResponse(p) ==
    /\ req[p].pc = "classify"
    /\ \E raw \in (IF apiKey THEN llm.cls ELSE {EmptyContent}) :
         LET r0 == req[p]
             r == [(IF apiKey THEN Issue(r0, "llm_classify") ELSE r0)
                      EXCEPT !.classLog = Append(@, raw)]
             out == ClassifyAttempt(make_llm_request(raw))
         IN  req' = [req EXCEPT ![p] =
                 IF ~out.retry THEN AfterClassify(r, out.value)
                 ELSE IF r.attempt < ClassifyAttempts
                 THEN [r EXCEPT !.attempt = @ + 1, !.tries = 1]
                 ELSE AfterClassify(r, NoneVal)]
    /\ UNCHANGED <<supabase, apiKey, llm, plants, care_instructions, plant_images, ncalls>>

(***************************** store: entry *********************************)
PlantName(care_info) == Get(care_info, "plantName")

\* the supplied zone is persisted for every category
zone_for_persistence_Verbatim(r) == r.user_zone

zone_for_persistence(r) ==
    IF r.plant_group \in IndoorGroups THEN Null ELSE r.user_zone

plant_data_for_upsert(r) ==
    [plant_name |-> PlantName(r.care_info).v, zone |-> zone_for_persistence(r),
     plant_group |-> r.plant_group]

WithId(payload, id) ==
    [plant_id |-> id, plant_name |-> payload.plant_name, zone |-> payload.zone,
     plant_group |-> payload.plant_group]

\* a store that returned false makes generate_plant_care_instructions return
\* a Failure
StoreEndFailing(r0, success) ==
    LET r == [r0 EXCEPT !.storage_success = IF success THEN "true" ELSE "false"]
    IN  IF r.caller = "endpoint"
        THEN IF success THEN [r EXCEPT !.pc = "image_lookup"]
             ELSE Respond(r, 503, "detail")
        ELSE Done(r)

\* store_plant_and_care_instructions returns; generate_plant_care_instructions
\* goes on to the image whatever the result
StoreEnd(r0, success) ==
    LET r == [r0 EXCEPT !.storage_success = IF success THEN "true" ELSE "false"]
    IN  IF r.caller = "endpoint" THEN [r EXCEPT !.pc = "image_lookup"] ELSE Done(r)

\* isinstance(care_info, dict): None and a JSON value are not a dict
IsInstanceDict(care_info) == DOMAIN care_info \cap {"py_none", "k"} = {}

\* the zone is required for every category
MissingNameOrZoneEveryGroup(r) ==
    ~ObjTruthy(PlantName(r.care_info)) \/ Falsy(r.user_zone)

\* the check of the data an insert needs
MissingNameOrZone(r) ==
    \/ ~ObjTruthy(PlantName(r.care_info))
    \/ (Falsy(r.user_zone) /\ r.plant_group \notin IndoorGroups)

\* the legacy care structure is not validated
StoreBeginNoValidation(r0, rowsNow) ==
    LET r == [r0 EXCEPT !.care_before = rowsNow, !.plants_before = plants]
        ci == r.care_info
    IN  IF ~supabase THEN StoreEnd(r, FALSE)
        ELSE IF ~IsInstanceDict(ci) THEN StoreEnd(r, FALSE)
        ELSE IF MissingNameOrZone(r) THEN StoreEnd(r, FALSE)
        ELSE IF LegacyRaises(ci) \/ TabRaises(ci)
        THEN Raise(r)
        ELSE [r EXCEPT !.pc = "rpc"]

\* store_plant_and_care_instructions up to the atomic call
StoreBegin(r0, rowsNow) ==
    LET r == [r0 EXCEPT !.care_before = rowsNow, !.plants_before = plants]
        ci == r.care_info
    IN  IF ~supabase THEN StoreEnd(r, FALSE)
        ELSE IF ~IsInstanceDict(ci) THEN StoreEnd(r, FALSE)
        ELSE IF MissingNameOrZone(r) THEN StoreEnd(r, FALSE)
        ELSE IF ~ObjTruthy(CarePlanJson(ci))
                /\ ~validate_care_structure(CareDetails(ci)).valid
        THEN StoreEnd(r, FALSE)
        ELSE IF LegacyRaises(ci) \/ TabRaises(ci)
        THEN Raise(r)
        ELSE [r EXCEPT !.pc = "rpc"]

\* a rejected response is followed by another generation call
GenerateResponseRetrying(p) ==
    /\ req[p].pc = "generate"
    /\ \E raw \in (IF apiKey THEN llm.care ELSE {EmptyContent}) :
         LET r0 == req[p]
             r == [(IF apiKey THEN Issue(r0, "llm_care") ELSE r0)
                      EXCEPT !.classLog = << >>, !.care_raw = raw,
                             !.care_responses = @ + 1]
             care_info == validate_and_parse_response(make_llm_request(raw))
         IN  req' = [req EXCEPT ![p] =
                 IF care_info = NoneVal
                 THEN IF r.care_responses < LLM_MAX_RETRIES
                      THEN [r EXCEPT !.tries = 1]
                      ELSE Respond(r, 503, "detail")
                 ELSE StoreBegin([r EXCEPT !.care_info = care_info], care_instructions)]
    /\ UNCHANGED <<supabase, apiKey, llm, plants, care_instructions, plant_images, ncalls>>

\* the care-generation call answers: call_openrouter_llm_* and the start of
\* the store
GenerateResponse(p) ==
    /\ req[p].pc = "generate"
    /\ \E raw \in (IF apiKey THEN llm.care ELSE {EmptyContent}) :
         LET r0 == req[p]
             r == [(IF apiKey THEN Issue(r0, "llm_care") ELSE r0)
                      EXCEPT !.classLog = << >>, !.care_raw = raw,
                             !.care_responses = @ + 1]
             care_info == validate_and_parse_response(make_llm_request(raw))
         IN  req' = [req EXCEPT ![p] =
                 IF care_info = NoneVal
                 THEN Respond(r, 503, "detail")
                 ELSE StoreBegin([r EXCEPT !.care_info = care_info], care_instructions)]
    /\ UNCHANGED <<supabase, apiKey, llm, plants, care_instructions, plant_images, ncalls>>


(***************************** store: atomic path **************************)
\* every category is looked up by name and supplied zone
MatchesByZoneOnly(rows, plant_name, zone, plant_group) ==
    {x \in rows : x.plant_name = plant_name /\ x.zone = zone}

\* rows of table plants with the identity of the lookup keys
Matches(rows, plant_name, zone, plant_group) ==
    IF plant_group \in IndoorGroups
    THEN {x \in rows : x.plant_name = plant_name /\ x.plant_group = plant_group
                       /\ x.zone = Null}
    ELSE {x \in rows : x.plant_name = plant_name /\ x.zone = zone}

\* the stored procedure upsert_plant_and_care: in one transaction, update the
\* plant with the lookup identity or insert it, delete its instruction rows
\* and insert the given ones
upsert_plant_and_care(plant, care_rows, lookup) ==
    LET found == Matches(plants, lookup.plant_name, lookup.zone, lookup.plant_group)
        id == IF found # {} THEN MinOf({x.plant_id : x \in found}) ELSE NextId(plants)
    IN  [plant_id |-> id,
         plants |-> {x \in plants : x.plant_id # id} \cup {WithId(plant, id)},
         care_instructions |->
             BagPlus(DeleteWhere(care_instructions, id),
                     BagOfSeq(WithPlantId(care_rows, id)))]

\* what the client hands back for the rpc call: the call raises, yields no
\* response, a response without data, or data as an object or as a list whose
\* first element is an object; plant_id 0 stands for a missing plant_id
RpcResponses(id) ==
    {[kind |-> "raise", plant_id |-> 0], [kind |-> "none", plant_id |-> 0],
     [kind |-> "empty", plant_id |-> 0]}
    \cup {[kind |-> k, plant_id |-> i] : k \in {"dict", "list"}, i \in {0, id}}

\* the list envelope is not recognised
RpcReturnsTrueDictOnly(resp) == resp.kind = "dict" /\ resp.plant_id # 0

RpcReturnsTrue(resp) == resp.kind \in {"dict", "list"} /\ resp.plant_id # 0

Rpc(p) ==
    /\ req[p].pc = "rpc"
    /\ LET r == Issue(req[p], "rpc")
           plant == plant_data_for_upsert(r)
           lookup == [plant_name |-> plant.plant_name, zone |-> zone_for_persistence(r),
                      plant_group |-> r.plant_group]
           eff == upsert_plant_and_care(plant,
                      build_care_rows_without_plant_id(r.care_info), lookup)
       IN  \E committed \in BOOLEAN :
           \E resp \in RpcResponses(IF committed THEN eff.plant_id ELSE 0) :
             /\ plants' = IF committed THEN eff.plants ELSE plants
             /\ care_instructions' =
                    IF committed THEN eff.care_instructions ELSE care_instructions
             /\ req' = [req EXCEPT ![p] =
                    IF RpcReturnsTrue(resp)
                    THEN StoreEnd([r EXCEPT !.stored_id = eff.plant_id,
                                            !.rpc_id = resp.plant_id], TRUE)
                    ELSE [r EXCEPT !.pc = "find", !.rpc_id = resp.plant_id,
                                   !.stored_id = IF committed THEN eff.plant_id ELSE 0]]
    /\ UNCHANGED <<supabase, apiKey, llm, plant_images, ncalls>>

(***************************** store: fallback path ************************)
\* a client call that fails: it yields no response, or raises
FailKinds == {"none", "raise"}

FindPlant(p) ==
    /\ req[p].pc = "find"
    /\ LET r1 == Issue(req[p], "find")
           found == Matches(plants, PlantName(r1.care_info).v, r1.user_zone,
                            r1.plant_group)
       IN  \E kind \in {"ok", "no_id"} \cup FailKinds :
             /\ (kind = "no_id" => found # {})
             /\ LET r == Noted(r1, "find", OkOrFailed(kind))
                IN  req' = [req EXCEPT ![p] =
                        IF kind \in FailKinds THEN StoreEnd(r, FALSE)
                        ELSE IF found # {}
                        THEN IF kind = "no_id" THEN StoreEnd(r, FALSE)
                             ELSE [r EXCEPT !.pc = "update",
                                     !.plant_uuid = MinOf({x.plant_id : x \in found})]
                        ELSE [r EXCEPT !.pc = "insert_plant"]]
    /\ UNCHANGED <<supabase, apiKey, llm, plants, care_instructions, plant_images, ncalls>>

\* an update without a response is not noticed
UpdatePlantIgnoringNone(p) ==
    /\ req[p].pc = "update"
    /\ LET r1 == Issue(req[p], "update")
           id == r1.plant_uuid
           updated == {x \in plants : x.plant_id # id}
                      \cup {WithId(plant_data_for_upsert(r1), x.plant_id) :
                               x \in {y \in plants : y.plant_id = id}}
       IN  \E kind \in {"ok"} \cup FailKinds, applied \in BOOLEAN :
             /\ kind = "ok" => applied
             /\ plants' = IF applied THEN updated ELSE plants
             /\ LET r == Noted(r1, "update", OkOrFailed(kind))
                IN  req' = [req EXCEPT ![p] =
                        IF kind = "raise"
                        THEN StoreEnd([r EXCEPT !.stored_id = id], FALSE)
                        ELSE [r EXCEPT !.pc = "delete", !.stored_id = id]]
    /\ UNCHANGED <<supabase, apiKey, llm, care_instructions, plant_images, ncalls>>

\* a failed write may or may not have taken effect on the server
UpdatePlant(p) ==
    /\ req[p].pc = "update"
    /\ LET r1 == Issue(req[p], "update")
           id == r1.plant_uuid
           updated == {x \in plants : x.plant_id # id}
                      \cup {WithId(plant_data_for_upsert(r1), x.plant_id) :
                               x \in {y \in plants : y.plant_id = id}}
       IN  \E kind \in {"ok"} \cup FailKinds, applied \in BOOLEAN :
             /\ kind = "ok" => applied
             /\ plants' = IF applied THEN updated ELSE plants
             /\ LET r == Noted(r1, "update", OkOrFailed(kind))
                IN  req' = [req EXCEPT ![p] =
                        IF kind = "none" \/ kind = "raise"
                        THEN StoreEnd([r EXCEPT !.stored_id = id], FALSE)
                        ELSE [r EXCEPT !.pc = "delete", !.stored_id = id]]
    /\ UNCHANGED <<supabase, apiKey, llm, care_instructions, plant_images, ncalls>>

InsertPlant(p) ==
    /\ req[p].pc = "insert_plant"
    /\ LET r1 == Issue(req[p], "insert_plant")
           id == NextId(plants)
       IN  \E kind \in {"ok", "no_id", "empty"} \cup FailKinds, applied \in BOOLEAN :
             /\ kind \in {"ok", "no_id"} => applied
             /\ kind = "empty" => ~applied
             /\ plants' = IF applied
                          THEN plants \cup {WithId(plant_data_for_upsert(r1), id)}
                          ELSE plants
             /\ LET r == Noted(r1, "insert_plant", OkOrFailed(kind))
                IN  req' = [req EXCEPT ![p] =
                        IF kind = "ok"
                        THEN [r EXCEPT !.pc = "delete", !.plant_uuid = id,
                                       !.stored_id = id]
                        ELSE StoreEnd([r EXCEPT !.stored_id =
                                                    IF applied THEN id ELSE 0],
                                      FALSE)]
    /\ UNCHANGED <<supabase, apiKey, llm, care_instructions, plant_images, ncalls>>

\* a document without a row to insert is stored successfully
AfterDeleteLenient(r) ==
    IF care_instructions_to_insert(r.care_info, r.plant_uuid) = << >>
    THEN StoreEnd(r, TRUE)
    ELSE [r EXCEPT !.pc = "insert_care"]

\* the flattening that follows the delete of the old rows
AfterDelete(r) ==
    IF care_instructions_to_insert(r.care_info, r.plant_uuid) = << >>
    THEN StoreEnd(r, skipped_instructions(r.care_info) = 0)
    ELSE [r EXCEPT !.pc = "insert_care"]

\* the delete call returned: an exception is caught by the handlers of the
\* store, a missing response is logged
DeleteReturned(r, kind) ==
    IF kind = "raise" THEN StoreEnd(r, FALSE) ELSE AfterDelete(r)

\* the replace of the rows of a plant excludes another worker's replace
DeleteCareExclusive(p) ==
    /\ req[p].pc = "delete"
    /\ \A q \in Procs \ {p} :
         \/ req[q].pc \notin {"delete", "insert_care"}
         \/ req[q].plant_uuid # req[p].plant_uuid
    /\ LET r1 == Issue(req[p], "delete")
       IN  \E kind \in {"ok"} \cup FailKinds, applied \in BOOLEAN :
             /\ kind = "ok" => applied
             /\ care_instructions' =
                    IF applied THEN DeleteWhere(care_instructions, r1.plant_uuid)
                    ELSE care_instructions
             /\ LET r == Noted(r1, "delete", kind)
                IN  req' = [req EXCEPT ![p] =
                        DeleteReturned(r, kind)]
    /\ UNCHANGED <<supabase, apiKey, llm, plants, plant_images, ncalls>>

DeleteCare(p) ==
    /\ req[p].pc = "delete"
    /\ LET r1 == Issue(req[p], "delete")
       IN  \E kind \in {"ok"} \cup FailKinds, applied \in BOOLEAN :
             /\ kind = "ok" => applied
             /\ care_instructions' =
                    IF applied THEN DeleteWhere(care_instructions, r1.plant_uuid)
                    ELSE care_instructions
             /\ LET r == Noted(r1, "delete", kind)
                IN  req' = [req EXCEPT ![p] =
                        DeleteReturned(r, kind)]
    /\ UNCHANGED <<supabase, apiKey, llm, plants, plant_images, ncalls>>

\* the bulk insert: the response confirms all rows, only the first of several,
\* or none; a failed call inserted all rows or none
InsertCare(p) ==
    /\ req[p].pc = "insert_care"
    /\ LET r1 == Issue(req[p], "insert_care")
           rows == care_instructions_to_insert(r1.care_info, r1.plant_uuid)
       IN  \E kind \in {"ok", "empty"} \cup FailKinds, n \in {0, 1, Len(rows)} :
             /\ kind = "empty" => n = 0
             /\ kind = "ok" => n # 0
             /\ kind \in FailKinds => n \in {0, Len(rows)}
             /\ care_instructions' =
                    BagPlus(care_instructions, BagOfSeq(SubSeq(rows, 1, n)))
             /\ LET r == Noted(r1, "insert_care",
                               IF kind = "ok" /\ n < Len(rows) THEN "partial"
                               ELSE OkOrFailed(kind))
                IN  req' = [req EXCEPT ![p] = StoreEnd(r, kind = "ok" /\ n = Len(rows))]
    /\ UNCHANGED <<supabase, apiKey, llm, plants, plant_images, ncalls>>

(***************************** image enrichment *****************************)
\* get_unsplash_image catches every error and then returns None
ImageLookup(p) ==
    /\ req[p].pc = "image_lookup"
    /\ LET r == Issue(req[p], "image_lookup")
       IN  \E image_data \in BOOLEAN :
             req' = [req EXCEPT ![p] =
                 IF image_data /\ supabase /\ ObjTruthy(PlantName(r.care_info))
                 THEN [r EXCEPT !.pc = "image_find"]
                 ELSE Respond(r, 200, "care_info")]
    /\ UNCHANGED <<supabase, apiKey, llm, plants, care_instructions, plant_images, ncalls>>

\* an exception of the image find is not caught
ImageFindRaising(p) ==
    /\ req[p].pc = "image_find"
    /\ LET r == Issue(req[p], "image_find")
           found == {x \in plant_images : x.name = PlantName(r.care_info).v}
       IN  \E kind \in {"ok", "no_id"} \cup FailKinds :
             req' = [req EXCEPT ![p] =
                 IF kind = "raise" THEN Raise(r)
                 ELSE IF kind = "none" THEN Respond(r, 200, "care_info")
                 ELSE IF found = {} THEN [r EXCEPT !.pc = "image_insert"]
                 ELSE IF kind = "no_id" THEN Respond(r, 200, "care_info")
                 ELSE [r EXCEPT !.pc = "image_update"]]
    /\ UNCHANGED <<supabase, apiKey, llm, plants, care_instructions, plant_images, ncalls>>

ImageFind(p) ==
    /\ req[p].pc = "image_find"
    /\ LET r == Issue(req[p], "image_find")
           found == {x \in plant_images : x.name = PlantName(r.care_info).v}
       IN  \E kind \in {"ok", "no_id"} \cup FailKinds :
             req' = [req EXCEPT ![p] =
                 IF kind \in FailKinds THEN Respond(r, 200, "care_info")
                 ELSE IF found = {} THEN [r EXCEPT !.pc = "image_insert"]
                 ELSE IF kind = "no_id" THEN Respond(r, 200, "care_info")
                 ELSE [r EXCEPT !.pc = "image_update"]]
    /\ UNCHANGED <<supabase, apiKey, llm, plants, care_instructions, plant_images, ncalls>>

ImageWrite(p) ==
    /\ req[p].pc \in {"image_insert", "image_update"}
    /\ LET r == Issue(req[p], req[p].pc)
           name == PlantName(r.care_info).v
       IN  \E applied \in BOOLEAN :
             /\ plant_images' =
                    IF applied /\ r.pc = "image_insert"
                    THEN plant_images \cup {[id |-> NextImageId(plant_images),
                                             name |-> name]}
                    ELSE plant_images
             /\ req' = [req EXCEPT ![p] = Respond(r, 200, "care_info")]
    /\ UNCHANGED <<supabase, apiKey, llm, plants, care_instructions, ncalls>>

(***************************** the endpoint's behaviours ********************)
StoreSteps(p) ==
    \/ Rpc(p)
    \/ FindPlant(p)
    \/ UpdatePlant(p)
    \/ InsertPlant(p)
    \/ DeleteCare(p)
    \/ InsertCare(p)

Next ==
    \E p \in Procs :
        \/ Receive(p)
        \/ LlmRaise(p)
        \/ ClassifyResponse(p)
        \/ GenerateResponse(p)
        \/ StoreSteps(p)
        \/ ImageLookup(p)
        \/ ImageFind(p)
        \/ ImageWrite(p)

Spec == Init /\ [][Next]_vars

(***************************** the classifier alone *************************)
\* get_plant_group_and_prompt is called on its own and the classifier model
\* answers with any of the texts
InitClassify ==
    /\ supabase = TRUE
    /\ apiKey \in BOOLEAN
    /\ InitData(ClassifyContents, {})

CallClassify(p) ==
    /\ req[p].pc \in {"idle", "done"}
    /\ req' = [req EXCEPT ![p] =
           [Idle EXCEPT !.caller = "classify", !.pc = "classify", !.attempt = 1,
                        !.tries = 1, !.clsState = "running", !.noting = TRUE]]
    /\ UNCHANGED <<supabase, apiKey, llm, plants, care_instructions, plant_images, ncalls>>

NextClassify ==
    \E p \in Procs :
        \/ CallClassify(p)
        \/ LlmRaise(p)
        \/ ClassifyResponse(p)

SpecClassify == InitClassify /\ [][NextClassify]_vars

\* classify_plant_group runs synchronously in its caller: once entered, its
\* loop and the retries of make_llm_request keep taking their next step
SpecClassifyFair ==
    SpecClassify /\ \A p \in Procs : WF_vars(LlmRaise(p) \/ ClassifyResponse(p))

(***************************** the store alone ******************************)
\* store_plant_and_care_instructions is called on its own, one call after the
\* other, with a zone, a category and a parsed document
\* the store is called with an outdoor and an indoor category
StoreGroups == {"Herbs", "Succulents"}

\* the documents the store is called with here; the fallback specification
\* below takes the other shapes
StoreDocs == GoodDocs \ {DocB}

InitStoreCalls ==
    /\ supabase = TRUE
    /\ apiKey = TRUE
    /\ InitData({}, StoreDocs)

CallStore(p) ==
    /\ req[p].pc \in {"idle", "done"}
    /\ ncalls < MaxStoreCalls
    /\ ncalls' = ncalls + 1
    /\ \E z \in Zones, g \in StoreGroups, raw \in llm.care :
         req' = [req EXCEPT ![p] =
             StoreBegin([Idle EXCEPT !.caller = "store", !.user_zone = z,
                                     !.prev =
                                         IF req[p].storage_success = "true"
                                         THEN [ok |-> TRUE, raw |-> req[p].care_raw,
                                               zone |-> req[p].user_zone,
                                               group |-> req[p].plant_group,
                                               id |-> req[p].stored_id]
                                         ELSE NoPrev,
                                     !.plant_group = g, !.care_raw = raw,
                                     !.care_info = validate_and_parse_response(
                                                       make_llm_request(raw))],
                        care_instructions)]
    /\ UNCHANGED <<supabase, apiKey, llm, plants, care_instructions, plant_images>>

NextStore ==
    \E p \in Procs :
        \/ CallStore(p)
        \/ StoreSteps(p)

SpecStore == InitStoreCalls /\ [][NextStore]_vars


(***************************** concurrent store calls ***********************)
\* number of calls of the store the two workers make between them
MaxConcurrentCalls == 2

\* two workers serve requests for the same plant at the same time; each calls
\* the store with the document its generation produced
ConcurrentDocs == {DocA, DocB}
ConcurrentGroups == {"Herbs"}
ConcurrentZones == {"7a"}

InitConcurrent ==
    /\ supabase = TRUE
    /\ apiKey = TRUE
    /\ llm = [cls |-> {}, care |-> ConcurrentDocs]
    /\ plants = {}
    /\ care_instructions = NoRows
    /\ plant_images = {}
    /\ ncalls = 0
    /\ req = [p \in Procs |-> Idle]

CallStoreConcurrent(p) ==
    /\ req[p].pc \in {"idle", "done"}
    /\ ncalls < MaxConcurrentCalls
    /\ ncalls' = ncalls + 1
    /\ \E z \in ConcurrentZones, g \in ConcurrentGroups, raw \in llm.care :
         req' = [req EXCEPT ![p] =
             StoreBegin([Idle EXCEPT !.caller = "store", !.user_zone = z,
                                     !.plant_group = g, !.care_raw = raw,
                                     !.care_info = validate_and_parse_response(
                                                       make_llm_request(raw))],
                        care_instructions)]
    /\ UNCHANGED <<supabase, apiKey, llm, plants, care_instructions, plant_images>>

NextConcurrent ==
    \E p \in Procs :
        \/ CallStoreConcurrent(p)
        \/ StoreSteps(p)

SpecConcurrent == InitConcurrent /\ [][NextConcurrent]_vars


(***************************** the store and its fallback path *************)
\* store_plant_and_care_instructions is called on its own for one zone, with
\* documents of every shape; how each call of the fallback path ended is noted
FallbackDocs == GoodDocs \cup ShapeDocs
FallbackZones == {"7a"}

InitFallback ==
    /\ supabase = TRUE
    /\ apiKey = TRUE
    /\ InitData({}, FallbackDocs)

CallStoreNoting(p) ==
    /\ req[p].pc \in {"idle", "done"}
    /\ ncalls < MaxStoreCalls
    /\ ncalls' = ncalls + 1
    /\ \E z \in FallbackZones, g \in StoreGroups, raw \in llm.care :
         req' = [req EXCEPT ![p] =
             StoreBegin([Idle EXCEPT !.caller = "store", !.user_zone = z,
                                     !.noting = TRUE,
                                     !.plant_group = g, !.care_raw = raw,
                                     !.care_info = validate_and_parse_response(
                                                       make_llm_request(raw))],
                        care_instructions)]
    /\ UNCHANGED <<supabase, apiKey, llm, plants, care_instructions, plant_images>>

NextFallback ==
    \E p \in Procs :
        \/ CallStoreNoting(p)
        \/ StoreSteps(p)

SpecFallback == InitFallback /\ [][NextFallback]_vars

(***************************** the entry checks of the store ***************)
\* store_plant_and_care_instructions is called on its own with and without a
\* store client, with and without a zone, and with a care_info that is a
\* document, a document without a plant name, None or a text
EntryZones == {Null, "", "7a"}
EntryCareInfos ==
    {validate_and_parse_response(make_llm_request(DocA)),
     validate_and_parse_response(make_llm_request(DocNoName)),
     JsonLoads(DocNoPlantNameKey).d, NoneVal, Str("see care")}

InitEntry ==
    /\ supabase \in BOOLEAN
    /\ apiKey = TRUE
    /\ InitData({}, {})

CallStoreEntry(p) ==
    /\ req[p].pc \in {"idle", "done"}
    /\ ncalls < MaxStoreCalls
    /\ ncalls' = ncalls + 1
    /\ \E z \in EntryZones, g \in StoreGroups, ci \in EntryCareInfos :
         req' = [req EXCEPT ![p] =
             StoreBegin([Idle EXCEPT !.caller = "store", !.user_zone = z,
                                     !.plant_group = g, !.care_info = ci],
                        care_instructions)]
    /\ UNCHANGED <<supabase, apiKey, llm, plants, care_instructions, plant_images>>

NextEntry ==
    \E p \in Procs :
        \/ CallStoreEntry(p)
        \/ StoreSteps(p)

SpecEntry == InitEntry /\ [][NextEntry]_vars

(***************************** the extractor alone **************************)
\* extract_json_from_response is called on a text of fences, tags, blanks and
\* braces, and then on what it returned
TextTokens == {Fence, WS, LBrace, RBrace} \cup JsonTags
Texts == UNION {[1..n -> TextTokens] : n \in 0..MaxTextLen}

InitExtract ==
    /\ supabase = TRUE
    /\ apiKey = TRUE
    /\ llm = [cls |-> {}, care |-> {}]
    /\ plants = {}
    /\ care_instructions = NoRows
    /\ plant_images = {}
    /\ ncalls = 0
    /\ \E x \in Texts :
         req = [p \in Procs |->
                   IF p = "w1"
                   THEN [Idle EXCEPT !.caller = "extract", !.pc = "extract",
                                     !.content = x]
                   ELSE Off]

Extract(p) ==
    /\ req[p].pc = "extract"
    /\ req' = [req EXCEPT ![p] =
           [@ EXCEPT !.pc = "extract_again",
                     !.extracted = << extract_json_from_response(req[p].content) >>]]
    /\ UNCHANGED <<supabase, apiKey, llm, plants, care_instructions, plant_images, ncalls>>

ExtractAgain(p) ==
    /\ req[p].pc = "extract_again"
    /\ req' = [req EXCEPT ![p] =
           [@ EXCEPT !.pc = "done",
                     !.extracted =
                         Append(@, extract_json_from_response(req[p].extracted[1]))]]
    /\ UNCHANGED <<supabase, apiKey, llm, plants, care_instructions, plant_images, ncalls>>

NextExtract ==
    \E p \in Procs :
        \/ Extract(p)
        \/ ExtractAgain(p)

SpecExtract == InitExtract /\ [][NextExtract]_vars

(***************************** requests with and without persist ***********)
\* the endpoint is requested with persist true or false; the models answer
\* the classification with Herbs and the generation with a document or a
\* truncated text
InitPersist ==
    /\ supabase \in BOOLEAN
    /\ apiKey = TRUE
    /\ InitData({PlantContent("Herbs")}, {DocA, DocTruncated})

ReceiveAnyPersist(p) == ReceiveFrom(p, {"7a"}, BOOLEAN)

NextPersist ==
    \E p \in Procs :
        \/ ReceiveAnyPersist(p)
        \/ LlmRaise(p)
        \/ ClassifyResponse(p)
        \/ GenerateResponse(p)
        \/ StoreSteps(p)
        \/ ImageLookup(p)
        \/ ImageFind(p)
        \/ ImageWrite(p)

SpecPersist == InitPersist /\ [][NextPersist]_vars

(***************************** the validator alone *************************)
\* validate_care_structure is called on its own with a legacy care mapping
\* of one or two phases (or none); the mapping is then edited step by step
\* and validated again
StepUniverse ==
    {Step("Water", Null, Null, Null),
     Step("Prune", Null, "urgent", "late winter"),
     Step("   ", "March", Null, Null),
     Step(Null, Null, "optional", Null),
     Step(NotStr, "March", Null, Null),
     [dict |-> FALSE, step |-> Null, months |-> Null, priority |-> Null,
      timing |-> Null]}

WellFormedSteps == {st \in StepUniverse : st.dict /\ StepOk(st)}

StepLists == UNION {[1..n -> StepUniverse] : n \in 0..MaxSteps}

PhaseValues ==
    {[list |-> TRUE, v |-> steps] : steps \in StepLists}
    \cup {[list |-> FALSE, v |-> << >>]}

\* the second phase starts with fewer steps than the first may have
ShortPhaseValues == {x \in PhaseValues : Len(x.v) < MaxSteps}

CareMappings ==
    {<< >>}
    \cup {<< [phase |-> "spring", steps |-> a] >> : a \in PhaseValues}
    \cup {<< [phase |-> "spring", steps |-> a], [phase |-> "winter", steps |-> b] >> :
             a \in PhaseValues, b \in ShortPhaseValues}

\* values that are not a mapping: a string and null
NonDictValues == {Str("water weekly"), Lit("null")}

InitValidate ==
    /\ supabase = TRUE
    /\ apiKey = TRUE
    /\ llm = [cls |-> {}, care |-> {}]
    /\ plants = {}
    /\ care_instructions = NoRows
    /\ plant_images = {}
    /\ ncalls = 0
    /\ \E m \in CareMappings, x \in {NoneVal} \cup NonDictValues :
         /\ x # NoneVal => m = << >>
         /\ req = [p \in Procs |->
                   IF p = "w1"
                   THEN [Idle EXCEPT !.caller = "validate", !.pc = "validate",
                                     !.care_details = m, !.care_nondict = x]
                   ELSE Off]

Validate(p) ==
    /\ req[p].pc = "validate"
    /\ req' = [req EXCEPT ![p] =
           [@ EXCEPT !.pc = "done",
                     !.validation =
                         IF req[p].care_nondict = NoneVal
                         THEN validate_care_dict(req[p].care_details)
                         ELSE validate_care_structure(req[p].care_nondict)]]
    /\ UNCHANGED <<supabase, apiKey, llm, plants, care_instructions, plant_images, ncalls>>

WithSteps(m, i, steps) == [m EXCEPT ![i] = [@ EXCEPT !.steps = [@ EXCEPT !.v = steps]]]

Edited(r, m, edit) ==
    [r EXCEPT !.care_details = m, !.validation_before = r.validation,
              !.validation = validate_care_dict(m), !.edit = edit]

\* a well-formed step is appended to a phase list and the mapping is validated
AppendStep(p) ==
    /\ req[p].caller = "validate"
    /\ req[p].pc = "done"
    /\ LET m == req[p].care_details
       IN  \E i \in 1..Len(m), st \in WellFormedSteps :
             /\ m[i].steps.list
             /\ Len(m[i].steps.v) < MaxSteps
             /\ req' = [req EXCEPT ![p] =
                    Edited(@, WithSteps(m, i, Append(m[i].steps.v, st)), "append")]
    /\ UNCHANGED <<supabase, apiKey, llm, plants, care_instructions, plant_images, ncalls>>

\* a step is removed from a phase list and the mapping is validated
RemoveStep(p) ==
    /\ req[p].caller = "validate"
    /\ req[p].pc = "done"
    /\ LET m == req[p].care_details
       IN  \E i \in 1..Len(m) :
             /\ m[i].steps.list
             /\ \E j \in 1..Len(m[i].steps.v) :
                  LET steps == m[i].steps.v
                      rest == SubSeq(steps, 1, j - 1) \o SubSeq(steps, j + 1, Len(steps))
                  IN  req' = [req EXCEPT ![p] =
                          Edited(@, WithSteps(m, i, rest), "remove")]
    /\ UNCHANGED <<supabase, apiKey, llm, plants, care_instructions, plant_images, ncalls>>

NextValidate ==
    \E p \in Procs :
        \/ Validate(p)
        \/ AppendStep(p)
        \/ RemoveStep(p)

SpecValidate == InitValidate /\ [][NextValidate]_vars


(***************************** properties ***********************************)
CareOps == {"llm_care"}
StoreOps == {"rpc", "find", "update", "insert_plant", "delete", "insert_care"}
FallbackOps == StoreOps \ {"rpc"}
ImageOps == {"image_lookup", "image_find", "image_insert", "image_update"}

ElevenCategories ==
    {"Herbs", "Vegetables", "Fruit Trees", "Flowering Shrubs", "Perennial Flowers",
     "Ornamental Trees", "Native Plants", "Annual Flowers", "Houseplants",
     "Succulents", "Bulbs"}

\* the texts that are a well-formed classification, and what each one says
ValidClassifyContents == {PlantContent(g) : g \in ElevenCategories} \cup {NonPlantContent}
ExpectedClassification(raw) ==
    IF raw = NonPlantContent THEN [is_plant |-> FALSE]
    ELSE [is_plant |-> TRUE,
          plant_group |-> CHOOSE g \in ElevenCategories : raw = PlantContent(g)]

SevenPromptGroups ==
    {"edible_annuals", "fruit_trees", "ornamental_perennials", "annual_flowers",
     "houseplants", "succulents", "bulbs"}

SpecifiedRoute(g) ==
    CASE g \in {"Herbs", "Vegetables"} -> "edible_annuals"
      [] g = "Fruit Trees" -> "fruit_trees"
      [] g \in {"Flowering Shrubs", "Perennial Flowers", "Ornamental Trees",
                "Native Plants"} -> "ornamental_perennials"
      [] g = "Annual Flowers" -> "annual_flowers"
      [] g = "Houseplants" -> "houseplants"
      [] g = "Succulents" -> "succulents"
      [] g = "Bulbs" -> "bulbs"

\* C5: the router maps each of the 11 categories as the table of the
\* specification says, onto exactly 7 prompt groups, and every plant
\* classification gets its prompt group (never a Failure).
C5_RouterTable ==
    /\ DOMAIN CATEGORY_TO_PROMPT = ElevenCategories
    /\ \A g \in ElevenCategories : CATEGORY_TO_PROMPT[g] = SpecifiedRoute(g)
    /\ {CATEGORY_TO_PROMPT[g] : g \in ElevenCategories} = SevenPromptGroups
    /\ \A p \in Procs :
         LET r == req[p]
         IN  (r.caller = "classify" /\ r.clsState = "returned"
              /\ r.classification # NoneVal /\ r.classification.is_plant)
             => r.prompt_function = SpecifiedRoute(r.classification.plant_group)

C5_Witness ==
    \E p \in Procs :
        LET r == req[p]
        IN  /\ r.clsState = "returned"
            /\ r.classification = [is_plant |-> TRUE, plant_group |-> "Native Plants"]
            /\ r.prompt_function = "ornamental_perennials"

C8_AtomicFirst ==
    \A p \in Procs :
        LET r == req[p]
        IN  r.caller = "store"
            => /\ (r.ops \cap FallbackOps # {}
                   \/ r.pc \in {"find", "update", "insert_plant", "delete", "insert_care"})
                  => ("rpc" \in r.ops /\ r.rpc_id = 0)
               /\ ("rpc" \in r.ops /\ r.rpc_id # 0)
                  => (r.pc = "done" /\ r.storage_success = "true"
                      /\ r.ops \cap FallbackOps = {})
               /\ ("rpc" \in r.ops /\ r.rpc_id = 0)
                  => (r.pc = "find" \/ "find" \in r.ops)

C8_Witness ==
    \E p \in Procs :
        /\ req[p].caller = "store"
        /\ "rpc" \in req[p].ops
        /\ req[p].rpc_id = 0
        /\ req[p].stored_id # 0
        /\ "insert_care" \in req[p].ops
        /\ req[p].storage_success = "true"

ParsedDoc(raw) == validate_and_parse_response(make_llm_request(raw))
SeqRange(s) == {s[i] : i \in DOMAIN s}

\* C9: a successful store of document A followed by a successful store of a
\* document B with disjoint instructions for the same identity leaves exactly
\* the flattened rows of B for the plant, and none of A.
C9_ReplaceNotMerge ==
    \A p \in Procs :
        LET r == req[p]
            rowsB == build_care_rows_without_plant_id(r.care_info)
            rowsA == build_care_rows_without_plant_id(ParsedDoc(r.prev.raw))
        IN  (/\ r.caller = "store"
             /\ r.pc = "done"
             /\ r.storage_success = "true"
             /\ r.prev.ok
             /\ r.prev.group = r.plant_group
             /\ (r.plant_group \in IndoorGroups \/ r.prev.zone = r.user_zone)
             /\ PlantName(ParsedDoc(r.prev.raw)) = PlantName(r.care_info)
             /\ SeqRange(rowsA) \cap SeqRange(rowsB) = {})
            => RowsOf(care_instructions, r.stored_id)
                  = BagOfSeq(WithPlantId(rowsB, r.stored_id))

\* C10: when a store call has completed, with true or with false, the rows of
\* the plant are the complete previous set or the complete new flattened set.
C10_AllOrNothing ==
    \A p \in Procs :
        LET r == req[p]
            new == WithPlantId(build_care_rows_without_plant_id(r.care_info),
                               r.stored_id)
        IN  (r.caller = "store" /\ r.pc = "done")
            => IF r.stored_id = 0
               THEN care_instructions = r.care_before
               ELSE \/ RowsOf(care_instructions, r.stored_id)
                         = RowsOf(r.care_before, r.stored_id)
                    \/ RowsOf(care_instructions, r.stored_id) = BagOfSeq(new)

\* a parsed document none of whose tabs or phases yields an instruction row
NoInstruction(care_info) ==
    ~LegacyRaises(care_info) /\ build_care_rows_without_plant_id(care_info) = << >>

\* C11: the store returns false for a document without any non-empty
\* instruction, and writes no plant row and no instruction row for it.
C11_EmptyDocumentRejected ==
    \A p \in Procs :
        LET r == req[p]
        IN  (r.caller = "store" /\ r.pc = "done" /\ r.care_info # NoneVal
             /\ NoInstruction(r.care_info))
            => /\ r.storage_success = "false"
               /\ plants = r.plants_before
               /\ care_instructions = r.care_before

\* C12: a legacy document (no care_plan) that validate_care_structure reports
\* invalid makes the store return false before any operation on the store: no
\* atomic call, no plant find/insert/update, no instruction delete/insert.
C12_InvalidLegacyBlocksPersistence ==
    \A p \in Procs :
        LET r == req[p]
        IN  (/\ r.caller = "store"
             /\ r.care_info # NoneVal
             /\ ~ObjTruthy(CarePlanJson(r.care_info))
             /\ ~validate_care_structure(CareDetails(r.care_info)).valid)
            => /\ r.pc = "done"
               /\ r.storage_success = "false"
               /\ ~r.raised
               /\ r.ops \cap StoreOps = {}
               /\ plants = r.plants_before
               /\ care_instructions = r.care_before

C12_Witness ==
    \E p \in Procs :
        /\ req[p].caller = "store"
        /\ req[p].care_raw = DocLegacyBad
        /\ req[p].plants_before # {}
        /\ req[p].storage_success = "false"
        /\ req[p].ops = {}

\* the zone the specification gives a plant row: null for the indoor
\* categories, the caller's zone otherwise
EffectiveZone(r) ==
    IF r.plant_group \in {"Houseplants", "Succulents"} THEN Null ELSE r.user_zone

\* the plant rows with the identity of the call of r
SameIdentity(rows, r) ==
    {x \in rows : /\ x.plant_name = PlantName(r.care_info).v
                  /\ x.zone = EffectiveZone(r)
                  /\ (r.plant_group \in {"Houseplants", "Succulents"}
                      => x.plant_group = r.plant_group)}

\* C13: after two successful store calls in a row with the same name and the
\* same category, Houseplants or Succulents, and different zones, there is
\* exactly one plant row of that name and category, its zone is null, and it is
\* the row the first call wrote, which the second call wrote to again.
C13_IndoorSameIdentity ==
    \A p \in Procs :
        LET r == req[p]
            same == {x \in plants : /\ x.plant_name = PlantName(r.care_info).v
                                    /\ x.plant_group = r.plant_group}
        IN  (/\ r.caller = "store" /\ r.pc = "done"
             /\ r.storage_success = "true"
             /\ r.prev.ok
             /\ r.prev.group = r.plant_group
             /\ r.plant_group \in {"Houseplants", "Succulents"}
             /\ r.prev.zone # r.user_zone
             /\ PlantName(ParsedDoc(r.prev.raw)) = PlantName(r.care_info))
            => /\ Cardinality(same) = 1
               /\ \A x \in same : x.zone = Null /\ x.plant_id = r.prev.id
               /\ r.stored_id = r.prev.id

C13_Witness ==
    \E p \in Procs :
        LET r == req[p]
        IN  /\ r.caller = "store" /\ r.pc = "done"
            /\ r.storage_success = "true"
            /\ r.prev.ok
            /\ r.prev.group = "Succulents" /\ r.plant_group = "Succulents"
            /\ r.prev.zone = "7a" /\ r.user_zone = "8b"
            /\ "update" \in r.ops /\ "insert_care" \in r.ops
            /\ Cardinality(plants) = 1

\* C14: the zone of the plant row a store writes is null for Houseplants and
\* Succulents and the caller's zone for every other category; the fallback's
\* find matches exactly the rows of that effective zone (it updates such a row,
\* and inserts only when there is none), and the atomic call writes to the row
\* of that effective zone when there is one.
C14_EffectiveZone ==
    \A p \in Procs :
        LET r == req[p]
        IN  (r.caller = "store" /\ r.care_info # NoneVal)
            => /\ (r.pc = "done" /\ r.storage_success = "true")
                  => \E x \in plants : /\ x.plant_id = r.stored_id
                                       /\ x.zone = EffectiveZone(r)
               /\ r.pc = "update"
                  => \E x \in SameIdentity(plants, r) : x.plant_id = r.plant_uuid
               /\ r.pc = "insert_plant" => SameIdentity(plants, r) = {}
               /\ ("rpc" \in r.ops /\ r.rpc_id # 0
                   /\ SameIdentity(r.plants_before, r) # {})
                  => \E x \in SameIdentity(r.plants_before, r) : x.plant_id = r.rpc_id

C14_Witness ==
    \E p \in Procs :
        LET r == req[p]
        IN  /\ r.caller = "store" /\ r.pc = "update"
            /\ r.plant_group = "Succulents"
            /\ r.user_zone = "8b"
            /\ \E x \in plants : x.plant_id = r.plant_uuid /\ x.zone = Null
            /\ \E x \in plants : x.plant_group = "Herbs" /\ x.zone = "8b"

\* the identity of a plant row: (name, zone) outdoors, (name, category, null
\* zone) for the indoor categories
PlantIdentity(x) ==
    IF x.zone = Null THEN << x.plant_name, x.plant_group, Null >>
    ELSE << x.plant_name, x.zone >>

OnePlantRowPerIdentity ==
    \A x, y \in plants : PlantIdentity(x) = PlantIdentity(y) => x = y

\* no step removes a plant row
PlantRowsKept == {x.plant_id : x \in plants} \subseteq {x.plant_id : x \in plants'}

\* C15: in every reachable state, concurrent fallback runs included, there is
\* at most one plant row per identity, and no step of a store ever removes a
\* plant row.
C15_OnePlantPerIdentity == []OnePlantRowPerIdentity /\ [][PlantRowsKept]_vars

\* another worker is between its delete and its bulk insert for the same plant
OtherReplacing(p) ==
    \E q \in Procs \ {p} :
        /\ req[q].pc \in {"delete", "insert_care"}
        /\ req[q].plant_uuid = req[p].plant_uuid

\* C16: nothing in the fallback path makes one worker's delete or bulk insert
\* wait for another worker's: each is enabled when its worker has reached it
\* while the other worker is replacing the rows of the same plant.  The
\* witness is the state the interleaving produces: two calls for the same
\* plant with documents A and B, and the rows of the plant are those of both.
C16_NoExclusion ==
    \A p \in Procs :
        /\ (req[p].pc = "delete" /\ OtherReplacing(p)) => ENABLED DeleteCare(p)
        /\ (req[p].pc = "insert_care" /\ OtherReplacing(p)) => ENABLED InsertCare(p)

C16_Witness ==
    \E p, q \in Procs :
        LET a == req[p]
            b == req[q]
            rowsA == BagOfSeq(care_instructions_to_insert(a.care_info, a.plant_uuid))
            rowsB == BagOfSeq(care_instructions_to_insert(b.care_info, b.plant_uuid))
            now == RowsOf(care_instructions, a.plant_uuid)
        IN  /\ p # q
            /\ a.caller = "store" /\ b.caller = "store"
            /\ a.care_raw = DocA /\ b.care_raw = DocB
            /\ a.plant_uuid # 0 /\ a.plant_uuid = b.plant_uuid
            /\ "update" \in a.ops /\ "update" \in b.ops
            /\ "insert_care" \in a.ops /\ "insert_care" \in b.ops
            /\ a.rpc_id = 0 /\ b.rpc_id = 0
            /\ now # rowsA /\ now # rowsB
            /\ now = BagPlus(rowsA, rowsB)

\* the other transient state: both workers in flight and no row of the plant
C16_WitnessNoRows ==
    \E p, q \in Procs :
        /\ p # q
        /\ req[p].pc = "insert_care" /\ req[q].pc = "insert_care"
        /\ "update" \in req[p].ops /\ "update" \in req[q].ops
        /\ req[p].plant_uuid = req[q].plant_uuid
        /\ req[p].care_raw = DocA /\ req[q].care_raw = DocB
        /\ RowsOf(care_instructions, req[p].plant_uuid) = NoRows

\* the key check of the specification on a complete, parseable text: plantName
\* and either the pair care_plan, requirements or the legacy care
AcceptedBySpecification(raw) ==
    LET keys == DOMAIN JsonLoads(raw).d
    IN  /\ "plantName" \in keys
        /\ ({"care_plan", "requirements"} \subseteq keys \/ "care" \in keys)

ImagePcs == {"image_lookup", "image_find", "image_insert", "image_update"}

C23_StoreNeverRaises ==
    \A p \in Procs :
        req[p].caller = "store" =>
            /\ ~req[p].raised
            /\ req[p].pc = "done" => req[p].storage_success \in {"true", "false"}

\* C24: appending a well-formed step to a phase list of a mapping that is
\* valid yields a valid mapping; removing the only step of the only phase of a
\* valid mapping yields an invalid mapping with a non-empty errors list
SinglePhaseNoStep(m) == Len(m) = 1 /\ m[1].steps.list /\ m[1].steps.v = << >>

C24_ValidatorMonotone ==
    \A p \in Procs :
        (req[p].caller = "validate" /\ req[p].pc = "done") =>
            /\ (req[p].edit = "append" /\ req[p].validation_before.valid)
                  => req[p].validation.valid
            /\ (/\ req[p].edit = "remove"
                /\ req[p].validation_before.valid
                /\ SinglePhaseNoStep(req[p].care_details))
                  => (~req[p].validation.valid /\ req[p].validation.errors # << >>)

C24_Witness ==
    \E p \in Procs :
        /\ req[p].caller = "validate"
        /\ req[p].pc = "done"
        /\ req[p].edit = "append"
        /\ req[p].validation_before.valid
        /\ Len(req[p].care_details) = 2
        /\ req[p].validation.warnings # << >>

C24_WitnessRemove ==
    \E p \in Procs :
        /\ req[p].caller = "validate"
        /\ req[p].pc = "done"
        /\ req[p].edit = "remove"
        /\ req[p].validation_before.valid
        /\ SinglePhaseNoStep(req[p].care_details)

\* C25: an invalid priority, missing timing, an empty phase list and an empty
\* mapping each add a warning and do not make the mapping invalid; an absent
\* priority adds no warning; one phase with one step that has only a text is
\* valid with exactly the timing warning
StepsOf(m) ==
    Flatten([i \in 1..Len(m) |-> IF m[i].steps.list THEN m[i].steps.v ELSE << >>])

\* the mapping has none of the defects that are errors
NoDefect(m) ==
    \/ m = << >>
    \/ /\ \A i \in 1..Len(m) : m[i].steps.list
       /\ StepsOf(m) # << >>
       /\ \A k \in 1..Len(StepsOf(m)) :
            /\ StepsOf(m)[k].dict
            /\ StepsOf(m)[k].step \notin {Null, "", "   ", NotStr}

Has(seq, x) == \E k \in 1..Len(seq) : seq[k] = x

InvalidPriority(st) ==
    st.dict /\ st.priority \notin {Null, ""} \cup {"must do", "good to do", "optional"}
NoTiming(st) == st.dict /\ st.months \in {Null, ""} /\ st.timing \in {Null, ""}

C25_WarningsNotErrors ==
    \A p \in Procs :
        (/\ req[p].caller = "validate"
         /\ req[p].pc = "done"
         /\ req[p].care_nondict = NoneVal) =>
            LET m == req[p].care_details
                v == req[p].validation
                steps == StepsOf(m)
                \* the steps the validator looks at: those of non-empty lists
            IN  /\ v.valid <=> NoDefect(m)
                /\ v.valid <=> (v.errors = << >>)
                /\ Has(v.warnings, "priority_invalid")
                      <=> \E k \in 1..Len(steps) : InvalidPriority(steps[k])
                /\ Has(v.warnings, "timing_missing")
                      <=> \E k \in 1..Len(steps) : NoTiming(steps[k])
                /\ Has(v.warnings, "phase_empty")
                      <=> \E i \in 1..Len(m) : m[i].steps.list /\ m[i].steps.v = << >>
                /\ Has(v.warnings, "empty") <=> m = << >>
                /\ (/\ Len(m) = 1
                    /\ m[1].steps.list
                    /\ Len(m[1].steps.v) = 1
                    /\ m[1].steps.v[1] = Step("Water", Null, Null, Null))
                      => (v.valid /\ v.warnings = << "timing_missing" >>)

C25_Witness ==
    \E p \in Procs :
        /\ req[p].caller = "validate"
        /\ req[p].pc = "done"
        /\ req[p].validation.valid
        /\ Has(req[p].validation.warnings, "priority_invalid")
        /\ Has(req[p].validation.warnings, "timing_missing")
        /\ Has(req[p].validation.warnings, "phase_empty")

C25_WitnessTextOnly ==
    \E p \in Procs :
        /\ req[p].caller = "validate"
        /\ req[p].pc = "done"
        /\ req[p].care_details = << Phase("spring", << Step("Water", Null, Null, Null) >>) >>
        /\ req[p].validation.warnings = << "timing_missing" >>

\* C26: every instruction row the fallback path inserts carries the plant
\* identifier this store call obtained, from the first match of the find or
\* from the insert of the plant; when the find matched nothing, the plant
\* insert returned an identifier and the bulk insert confirmed all rows, the
\* store returns true and the rows of the new plant are the new rows
Cnt(b, row) == IF row \in DOMAIN b THEN b[row] ELSE 0

Did(r, op, kind) == op \in DOMAIN r.outcome /\ r.outcome[op] = kind

IdObtained(r) ==
    /\ r.plant_uuid # 0
    /\ \/ /\ Did(r, "find", "ok")
          /\ Did(r, "update", "ok")
          /\ r.plant_uuid =
                MinOf({x.plant_id :
                          x \in Matches(plants, PlantName(r.care_info).v, r.user_zone,
                                        r.plant_group)})
       \/ /\ Did(r, "find", "ok")
          /\ Did(r, "insert_plant", "ok")
          /\ "update" \notin r.ops
          /\ r.plant_uuid \notin {x.plant_id : x \in r.plants_before}
          /\ \E x \in plants : x.plant_id = r.plant_uuid

InsertedRowsCarryId ==
    \A p \in Procs :
        req[p].pc = "insert_care" =>
            /\ IdObtained(req[p])
            /\ \A row \in DOMAIN care_instructions' :
                 Cnt(care_instructions', row) > Cnt(care_instructions, row)
                    => row.plant_id = req[p].plant_uuid

NewPlantStored ==
    \A p \in Procs :
        (/\ req[p].caller = "store"
         /\ req[p].pc = "done"
         /\ Did(req[p], "insert_plant", "ok")
         /\ Did(req[p], "insert_care", "ok"))
        => /\ req[p].storage_success = "true"
           /\ req[p].rpc_id = 0
           /\ RowsOf(care_instructions, req[p].plant_uuid)
                 = BagOfSeq(WithPlantId(build_care_rows_without_plant_id(req[p].care_info),
                                        req[p].plant_uuid))
           /\ RowsOf(care_instructions, req[p].plant_uuid) # NoRows

C26_FallbackRowsCarryObtainedId == []NewPlantStored /\ [][InsertedRowsCarryId]_vars

C26_Witness ==
    \E p \in Procs :
        /\ req[p].caller = "store"
        /\ req[p].pc = "done"
        /\ Did(req[p], "insert_plant", "ok")
        /\ Did(req[p], "insert_care", "ok")
        /\ req[p].storage_success = "true"
        /\ req[p].plant_uuid = 2

\* C27: a failure at the plant-identity stage of the fallback path (find,
\* update or insert of the plant) makes the store return false without a
\* delete or an insert on instruction rows, and the steps of that stage leave
\* the instruction rows unchanged
IdentityOps == {"find", "update", "insert_plant"}

IdentityFailure(r) ==
    \E op \in IdentityOps \cap DOMAIN r.outcome : r.outcome[op] # "ok"

IdentityFailureEndsStore ==
    \A p \in Procs :
        (req[p].caller = "store" /\ IdentityFailure(req[p])) =>
            /\ req[p].pc = "done"
            /\ req[p].storage_success = "false"
            /\ req[p].ops \cap {"delete", "insert_care"} = {}

IdentityStageKeepsRows ==
    \A p \in Procs :
        req[p].pc \in IdentityOps => care_instructions' = care_instructions

C27_IdentityFailureKeepsRows ==
    []IdentityFailureEndsStore /\ [][IdentityStageKeepsRows]_vars

C27_Witness ==
    \E p \in Procs :
        /\ req[p].caller = "store"
        /\ req[p].pc = "done"
        /\ Did(req[p], "update", "failed")
        /\ care_instructions # NoRows
        /\ req[p].storage_success = "false"

\* C28: a delete of the old rows that fails or cannot be confirmed does not
\* end the store: the new rows are flattened and inserted, and the store
\* returns true when that insert is confirmed in full
DeleteNotOk(r) == "delete" \in DOMAIN r.outcome /\ r.outcome["delete"] # "ok"

ProceedsToInsert(r) ==
    LET rows == care_instructions_to_insert(r.care_info, r.plant_uuid)
    IN  /\ rows # << >> => "insert_care" \in r.ops
        /\ Did(r, "insert_care", "ok") => r.storage_success = "true"
        /\ (rows = << >> /\ skipped_instructions(r.care_info) = 0)
              => r.storage_success = "true"

C28_DeleteBestEffort ==
    \A p \in Procs :
        (req[p].caller = "store" /\ req[p].pc = "done" /\ DeleteNotOk(req[p]))
            => ProceedsToInsert(req[p])

\* C29: after the delete, zero rows and zero skipped entries return true
\* without an insert; zero rows and a skipped entry return false without an
\* insert; otherwise the bulk insert is issued and the store returns true iff
\* all requested rows are confirmed
C29_FlatteningDecidesResult ==
    \A p \in Procs :
        (/\ req[p].caller = "store"
         /\ req[p].pc = "done"
         /\ "delete" \in DOMAIN req[p].outcome
         /\ req[p].outcome["delete"] # "raise")
        => LET r == req[p]
               rows == care_instructions_to_insert(r.care_info, r.plant_uuid)
               skipped == skipped_instructions(r.care_info)
           IN  /\ (rows = << >> /\ skipped = 0)
                     => (r.storage_success = "true" /\ "insert_care" \notin r.ops)
               /\ (rows = << >> /\ skipped > 0)
                     => (r.storage_success = "false" /\ "insert_care" \notin r.ops)
               /\ rows # << >>
                     => /\ "insert_care" \in DOMAIN r.outcome
                        /\ r.storage_success = "true" <=> r.outcome["insert_care"] = "ok"

C29_Witness ==
    \E p \in Procs :
        /\ req[p].caller = "store"
        /\ req[p].pc = "done"
        /\ Did(req[p], "delete", "ok")
        /\ req[p].care_raw = DocBlank
        /\ req[p].storage_success = "false"
        /\ "insert_care" \notin req[p].ops

C29_WitnessPartial ==
    \E p \in Procs :
        /\ req[p].caller = "store"
        /\ req[p].pc = "done"
        /\ Did(req[p], "insert_care", "partial")
        /\ req[p].storage_success = "false"

\* C30: the rows the atomic path sends and the rows the fallback path inserts
\* are the same sequence apart from plant_id: same phase name, same months,
\* same trimmed description, same priority, same order value, same entries
\* left out
SameApartFromPlantId(sent, inserted, plant_uuid) ==
    /\ Len(sent) = Len(inserted)
    /\ \A j \in 1..Len(sent) :
         /\ inserted[j].plant_id = plant_uuid
         /\ inserted[j].care_phase = sent[j].care_phase
         /\ inserted[j].months = sent[j].months
         /\ inserted[j].step_description = sent[j].step_description
         /\ inserted[j].priority = sent[j].priority
         /\ inserted[j].order_within_season = sent[j].order_within_season

C30_SameRowsOnBothPaths ==
    \A p \in Procs :
        (/\ req[p].caller = "store"
         /\ "rpc" \in req[p].ops
         /\ "delete" \in DOMAIN req[p].outcome
         /\ req[p].outcome["delete"] # "raise")
        => SameApartFromPlantId(
               build_care_rows_without_plant_id(req[p].care_info),
               care_instructions_to_insert(req[p].care_info, req[p].plant_uuid),
               req[p].plant_uuid)

C30_Witness ==
    \E p \in Procs :
        /\ req[p].caller = "store"
        /\ req[p].pc = "done"
        /\ req[p].care_raw = DocA
        /\ Did(req[p], "insert_care", "ok")
        /\ skipped_instructions(req[p].care_info) > 0
        /\ Len(build_care_rows_without_plant_id(req[p].care_info)) = 2

\* C31: re-entering the fallback path for a document whose earlier store for
\* the same identity already took effect (here the atomic procedure committed
\* in the same call and its response carried no identifier) and returning
\* true leaves what a single store leaves: one plant row for the identity and
\* exactly the flattened rows of the document, each once.
CommittedUnseen(r) ==
    /\ r.caller = "store"
    /\ "rpc" \in r.ops
    /\ "update" \in r.ops
    /\ Matches(r.plants_before, PlantName(r.care_info).v, r.user_zone,
               r.plant_group) = {}

C31_IdempotentReentry ==
    \A p \in Procs :
        LET r == req[p]
        IN  (/\ CommittedUnseen(r)
             /\ r.pc = "done"
             /\ r.storage_success = "true")
            => /\ Cardinality(Matches(plants, PlantName(r.care_info).v, r.user_zone,
                                      r.plant_group)) = 1
               /\ RowsOf(care_instructions, r.plant_uuid)
                     = BagOfSeq(WithPlantId(
                           build_care_rows_without_plant_id(r.care_info),
                           r.plant_uuid))

\* the same with every call of the fallback path confirmed
C31_ConfirmedReentry ==
    \A p \in Procs :
        LET r == req[p]
        IN  (/\ CommittedUnseen(r)
             /\ r.pc = "done"
             /\ r.storage_success = "true"
             /\ Did(r, "delete", "ok"))
            => /\ Cardinality(Matches(plants, PlantName(r.care_info).v, r.user_zone,
                                      r.plant_group)) = 1
               /\ RowsOf(care_instructions, r.plant_uuid)
                     = BagOfSeq(WithPlantId(
                           build_care_rows_without_plant_id(r.care_info),
                           r.plant_uuid))

\* C32: the validator goes on after an error: the errors list holds one entry
\* for every phase that is not a list, one for every step that is not a
\* mapping and one for every step whose description is missing, blank or not
\* a string, wherever they stand, and any of them makes the result invalid
CountOf(seq, x) == Len(SelectSeq(seq, LAMBDA e : e = x))

NonListPhases(m) == Len(SelectSeq(m, LAMBDA ph : ~ph.steps.list))
NonDictSteps(m) == Len(SelectSeq(StepsOf(m), LAMBDA st : ~st.dict))
UndescribedSteps(m) ==
    Len(SelectSeq(StepsOf(m),
                  LAMBDA st : st.dict /\ st.step \in {Null, "", "   ", NotStr}))

C32_ErrorsAccumulate ==
    \A p \in Procs :
        (/\ req[p].caller = "validate"
         /\ req[p].pc = "done"
         /\ req[p].care_nondict = NoneVal) =>
            LET m == req[p].care_details
                v == req[p].validation
            IN  /\ CountOf(v.errors, "phase_not_list") = NonListPhases(m)
                /\ CountOf(v.errors, "step_not_dict") = NonDictSteps(m)
                /\ CountOf(v.errors, "step_missing") = UndescribedSteps(m)
                /\ (NonListPhases(m) + NonDictSteps(m) + UndescribedSteps(m) > 0)
                      => ~v.valid

\* a phase whose two steps are both in error, then a phase that is not a list
C32_Witness ==
    \E p \in Procs :
        /\ req[p].caller = "validate"
        /\ req[p].pc = "done"
        /\ Len(req[p].care_details) = 2
        /\ ~req[p].care_details[2].steps.list
        /\ req[p].validation.errors = << "step_not_dict", "step_missing", "phase_not_list" >>

\* a first phase with a missing and a non-string description
C32_WitnessDescriptions ==
    \E p \in Procs :
        /\ req[p].caller = "validate"
        /\ req[p].pc = "done"
        /\ Len(req[p].care_details) = 2
        /\ Len(req[p].care_details[1].steps.v) = 2
        /\ req[p].care_details[1].steps.v[1].step = Null
        /\ req[p].care_details[1].steps.v[2].step = NotStr
        /\ req[p].validation.errors = << "step_missing", "step_missing" >>

\* C38: the result of the validator is valid exactly when its errors list is
\* empty, for a mapping and for a value that is not a mapping, whatever the
\* warnings are
C38_ValidIffNoErrors ==
    \A p \in Procs :
        (req[p].caller = "validate" /\ req[p].pc = "done") =>
            LET v == req[p].validation
            IN  /\ v.valid = (Len(v.errors) = 0)
                /\ req[p].care_nondict # NoneVal
                      => (~v.valid /\ v.errors = << "not_dict" >> /\ v.warnings = << >>)

\* an invalid result with warnings
C38_Witness ==
    \E p \in Procs :
        /\ req[p].caller = "validate"
        /\ req[p].pc = "done"
        /\ ~req[p].validation.valid
        /\ Len(req[p].validation.errors) = 1
        /\ Len(req[p].validation.warnings) = 2

\* a value that is not a mapping
C38_WitnessNotDict ==
    \E p \in Procs :
        /\ req[p].caller = "validate"
        /\ req[p].pc = "done"
        /\ req[p].care_nondict = Lit("null")
        /\ ~req[p].validation.valid

\* a valid result with warnings
C38_WitnessValid ==
    \E p \in Procs :
        /\ req[p].caller = "validate"
        /\ req[p].pc = "done"
        /\ req[p].validation.valid
        /\ Len(req[p].validation.warnings) = 3

C33_WitnessFallback ==
    \E p \in Procs :
        /\ req[p].caller = "endpoint"
        /\ req[p].pc = "done"
        /\ "insert_care" \in req[p].ops
        /\ req[p].storage_success = "false"
        /\ req[p].http = 200

ProviderCallsBounded ==
    \A p \in Procs :
        req[p].caller = "classify" =>
            /\ req[p].llm_calls <= ClassifyAttempts * LLM_MAX_RETRIES
            /\ req[p].llm_calls <= (req[p].attempt - 1) * LLM_MAX_RETRIES + req[p].tries
            /\ req[p].attempt \in 1..ClassifyAttempts
            /\ req[p].tries \in 1..LLM_MAX_RETRIES

\* the step of a provider call that raised on the last transport attempt
LastTransportAttemptRaised(p) ==
    /\ req[p].caller = "classify"
    /\ req[p].pc = "classify"
    /\ req[p].tries = LLM_MAX_RETRIES
    /\ req'[p].llm_calls = req[p].llm_calls + 1
    /\ req'[p].classLog = req[p].classLog

SurvivingExceptionEndsClassification ==
    \A p \in Procs :
        LastTransportAttemptRaised(p) =>
            /\ req'[p].pc = "done"
            /\ req'[p].raised
            /\ req'[p].clsState = "raised"
            /\ req'[p].attempt = req[p].attempt

ClassificationTerminates ==
    \A p \in Procs : (req[p].pc = "classify") ~> (req[p].pc = "done")

C35_WitnessRaised ==
    \E p \in Procs :
        /\ req[p].caller = "classify"
        /\ req[p].pc = "done"
        /\ req[p].raised
        /\ req[p].attempt = 1
        /\ req[p].llm_calls = LLM_MAX_RETRIES

\* C37: the store returns false and issues no store operation when the store
\* client is unavailable, when care_info is not a mapping, when the document
\* has no plantName, or when the zone is missing and the category is neither
\* Houseplants nor Succulents; with a missing zone and one of these two
\* categories the store goes on to its atomic call
EntryRejects(r) ==
    \/ ~supabase
    \/ r.care_info = NoneVal
    \/ r.care_info = Str("see care")
    \/ "plantName" \notin DOMAIN r.care_info
    \/ r.care_info["plantName"] \in {Lit("null"), Str("")}
    \/ (r.user_zone \in {Null, ""} /\ r.plant_group \notin {"Houseplants", "Succulents"})

C37_EntryChecks ==
    \A p \in Procs :
        LET r == req[p]
        IN  (r.caller = "store" /\ r.pc # "idle") =>
               IF EntryRejects(r)
               THEN /\ r.pc = "done"
                    /\ r.storage_success = "false"
                    /\ ~r.raised
                    /\ r.ops = {}
                    /\ plants = r.plants_before
                    /\ care_instructions = r.care_before
               ELSE "rpc" \in r.ops \/ r.pc = "rpc"

\* a missing zone is refused for Herbs
C37_Witness ==
    \E p \in Procs :
        /\ req[p].caller = "store"
        /\ req[p].pc = "done"
        /\ supabase
        /\ req[p].care_info = validate_and_parse_response(make_llm_request(DocA))
        /\ req[p].user_zone = Null
        /\ req[p].plant_group = "Herbs"
        /\ req[p].storage_success = "false"
        /\ req[p].ops = {}
        /\ plants # {}

\* a missing zone is accepted for Succulents
C37_WitnessIndoor ==
    \E p \in Procs :
        /\ req[p].caller = "store"
        /\ req[p].pc = "done"
        /\ req[p].user_zone = ""
        /\ req[p].plant_group = "Succulents"
        /\ req[p].storage_success = "true"
        /\ \E x \in plants : x.zone = Null /\ x.plant_group = "Succulents"

\* care_info is not a mapping
C37_WitnessNotMapping ==
    \E p \in Procs :
        /\ req[p].caller = "store"
        /\ req[p].pc = "done"
        /\ supabase
        /\ req[p].care_info = Str("see care")
        /\ req[p].user_zone = "7a"
        /\ req[p].storage_success = "false"

\* C34: for every text whose extraction contains no fenced block, extracting
\* from the extraction returns the extraction; the extraction is the trimmed
\* inner content of the first fenced block, after its json tag if it has one,
\* and the trimmed text when there is no block
HasFencedBlock(t) ==
    \E i \in 1..Len(t), j \in 1..Len(t) : i < j /\ t[i] = Fence /\ t[j] = Fence

Trimmed(t) == t = << >> \/ (t[1] # WS /\ t[Len(t)] # WS)

C34_ExtractIdempotent ==
    \A p \in Procs :
        LET r == req[p]
        IN  /\ (r.caller = "extract" /\ r.pc = "done" /\ ~HasFencedBlock(r.extracted[1]))
                  => r.extracted[2] = r.extracted[1]
            /\ (r.caller = "extract" /\ r.pc \in {"extract_again", "done"})
                  => /\ Trimmed(r.extracted[1])
                     /\ ~HasFencedBlock(r.content)
                           => \E i \in 0..Len(r.content), j \in 0..Len(r.content) :
                                 /\ i <= j
                                 /\ r.extracted[1] = SubSeq(r.content, i + 1, j)
                                 /\ \A k \in (1..i) \cup ((j + 1)..Len(r.content)) :
                                       r.content[k] = WS

\* a block with a tag and blanks around its content
C34_Witness ==
    \E p \in Procs :
        /\ req[p].caller = "extract"
        /\ req[p].pc = "done"
        /\ req[p].content = << Fence, Tok("word", "json"), LBrace, WS, Fence >>
        /\ req[p].extracted = << << LBrace >>, << LBrace >> >>

\* a text without a block
C34_WitnessNoBlock ==
    \E p \in Procs :
        /\ req[p].caller = "extract"
        /\ req[p].pc = "done"
        /\ req[p].content = << WS, LBrace, Fence, RBrace, WS >>
        /\ req[p].extracted[2] = << LBrace, Fence, RBrace >>

====
